---- MODULE Spec2Model ----
(***************************************************************************)
(* Model of the gwi-api Store: the in-memory store (memorystore.Store),    *)
(* the relational store (postgrestore.Store and its three tables), and the *)
(* handlers that sit on top of them.                                       *)
(***************************************************************************)
EXTENDS Integers, Sequences, FiniteSets, TLC

(***************************************************************************)
(* Bounds of the model.                                                    *)
(***************************************************************************)
NumEmails == 2
NumTeams == 2
\* Store calls in one behaviour, and the goroutines that make them concurrently.
MaxCalls == 5
NumProcs == 2
\* Signals sent to the process, and connections the server serves at a time.
MaxSignals == 2
MaxConns == 2
\* Requests and clock steps in one behaviour of the API.
MaxRequests == 4
\* api.tokenExpiration, in seconds of the clock: DefaultTokenExpiration is 72
\* hours, SetTokenExpiration sets another; a short one lets tokens expire here.
tokenExpiration == 2

EmailPool == <<"me@example.com", "you@example.com", "them@example.com", "us@example.com">>
TeamIDPool == <<"gophers", "rustaceans", "pythonistas", "haskellers">>

Emails == {EmailPool[i] : i \in 1..NumEmails}
TeamIDs == {TeamIDPool[i] : i \in 1..NumTeams}
Passwords == {"secret", "hunter2"}
\* A team's name is optional.
Names == {"The Gophers", ""}
\* What gen_salt may draw.
Salts == {"salt1", "salt2"}
Procs == 1..NumProcs
NoProc == 0

(***************************************************************************)
(* Domain model: api.Volunteer, api.Team and the domain errors.            *)
(***************************************************************************)
Volunteer(email, password) == [Email |-> email, Password |-> password]
Team(id, name) == [ID |-> id, Name |-> name]

Nil == "nil"
ErrPasswordMismatch == "password mismatch"
ErrAlreadyExists == "already exists"
ErrNotFound == "not found"
\* A nil pointer dereference: the goroutine panics instead of returning.
Panic == "panic: nil pointer dereference"

(***************************************************************************)
(* Go maps as functions with a finite domain.                              *)
(***************************************************************************)
EmptyMap == [k \in {} |-> k]
Has(m, k) == k \in DOMAIN m
Put(m, k, v) == [x \in DOMAIN m \cup {k} |-> IF x = k THEN v ELSE m[x]]

\* All the orders in which a range over a set may visit its elements.
RECURSIVE Orders(_)
Orders(S) ==
    IF S = {} THEN {<< >>}
    ELSE UNION {{<<x>> \o rest : rest \in Orders(S \ {x})} : x \in S}

\* A returned slice: Go distinguishes the nil slice from an empty one.
Slice(items) == [isNil |-> FALSE, items |-> items]
NilSlice == [isNil |-> TRUE, items |-> << >>]

\* What an operation hands back: the store it leaves, the error, the value.
Result(store, err, val) == [store |-> store, err |-> err, val |-> val]
NoVal == "-"

VARIABLES
    mem,    \* memorystore.Store: volunteers, teams, teamMembers
    pg,     \* the database behind postgrestore.Store: volunteers, teams, team_members
    ret,    \* the last call and what each store returned for it
    calls,  \* the number of calls, requests and clock steps made so far
    mu,     \* memorystore.Store.mu: the goroutine holding it exclusively, those holding it shared
    pc,     \* per goroutine, the line of store.go it executes next (0: in no call)
    frame,  \* per goroutine, the arguments, locals and result of its call
    authLog, \* per email, the AuthenticateOrCreateVolunteerAccount calls made and the accounts they created
    joined, \* per team, the emails whose AddTeamMember succeeded with no successful RemoveTeamMember since
    now,    \* time.Now().Unix(), counted from the start of the process
    issued, \* the tokens PostLogin has handed out
    heap,   \* memorystore.Store with its pointers: the objects allocated and the addresses its maps hold
    run     \* runServerUntilInterrupted: its two goroutines, its channels, the HTTP server and the signals

vars == <<calls, pc, mem, pg, ret, mu, frame, authLog, joined, now, issued, heap, run>>

(***************************************************************************)
(* memorystore.Store                                                       *)
(***************************************************************************)
MemNew == [volunteers |-> EmptyMap, teams |-> EmptyMap, teamMembers |-> EmptyMap]

\* A store that takes every login: it overwrites the account it finds.
MemAuthenticateOverwriting(s, volunteer) ==
    Result([s EXCEPT !.volunteers = Put(@, volunteer.Email, volunteer)], Nil, NoVal)

MemAuthenticateOrCreateVolunteerAccount(s, volunteer) ==
    IF ~Has(s.volunteers, volunteer.Email)
    THEN Result([s EXCEPT !.volunteers = Put(@, volunteer.Email, volunteer)], Nil, NoVal)
    ELSE IF s.volunteers[volunteer.Email].Password # volunteer.Password
         THEN Result(s, ErrPasswordMismatch, NoVal)
         ELSE Result(s, Nil, NoVal)

\* A read that hands out the stored volunteer as it is.
MemGetVolunteerUnredacted(s, email) ==
    IF ~Has(s.volunteers, email)
    THEN Result(s, ErrNotFound, NoVal)
    ELSE Result(s, Nil, s.volunteers[email])

\* A read that blanks the password of the stored volunteer, not of a copy.
MemGetVolunteerByEmailBlanking(s, email) ==
    IF ~Has(s.volunteers, email)
    THEN Result(s, ErrNotFound, NoVal)
    ELSE LET dupe == [s.volunteers[email] EXCEPT !.Password = ""]
         IN  Result([s EXCEPT !.volunteers[email] = dupe], Nil, dupe)

MemGetVolunteerByEmail(s, email) ==
    IF ~Has(s.volunteers, email)
    THEN Result(s, ErrNotFound, NoVal)
    ELSE LET dupe == [s.volunteers[email] EXCEPT !.Password = ""]
         IN  Result(s, Nil, dupe)

\* A CreateTeam that answers ErrAlreadyExists but has stored the new team.
MemCreateTeamOverwriting(s, team) ==
    Result([s EXCEPT !.teams = Put(@, team.ID, team)],
           IF Has(s.teams, team.ID) THEN ErrAlreadyExists ELSE Nil, NoVal)

MemCreateTeam(s, team) ==
    IF Has(s.teams, team.ID)
    THEN Result(s, ErrAlreadyExists, NoVal)
    ELSE Result([s EXCEPT !.teams = Put(@, team.ID, team)], Nil, NoVal)

MemGetTeamByID(s, teamID) ==
    IF ~Has(s.teams, teamID)
    THEN Result(s, ErrNotFound, NoVal)
    ELSE Result(s, Nil, s.teams[teamID])

\* AddTeamMember without the lookup of the volunteer (lines 87-90).
MemAddTeamMemberAnyEmail(s, teamID, email) ==
    IF ~Has(s.teams, teamID) THEN Result(s, ErrNotFound, NoVal)
    ELSE IF Has(s.teamMembers, teamID) /\ email \in s.teamMembers[teamID]
         THEN Result(s, ErrAlreadyExists, NoVal)
    ELSE Result([s EXCEPT !.teamMembers = Put(@, teamID, {email})], Nil, NoVal)

\* AddTeamMember with the lookup of the volunteer (lines 87-90) moved into the
\* branch of a team that already has a member set.
MemAddTeamMemberCheckingExistingSet(s, teamID, email) ==
    IF ~Has(s.teams, teamID) THEN Result(s, ErrNotFound, NoVal)
    ELSE IF Has(s.teamMembers, teamID) /\ ~Has(s.volunteers, email)
         THEN Result(s, ErrNotFound, NoVal)
    ELSE IF Has(s.teamMembers, teamID) /\ email \in s.teamMembers[teamID]
         THEN Result(s, ErrAlreadyExists, NoVal)
    ELSE LET added == IF Has(s.teamMembers, teamID)
                      THEN [s EXCEPT !.teamMembers[teamID] = @ \cup {email}]
                      ELSE s
         IN  Result([added EXCEPT !.teamMembers = Put(@, teamID, {email})], Nil, NoVal)

\* AddTeamMember whose line 95 tests only that the team has a member set, not
\* that the email is in it: an emptied set refuses every member.
MemAddTeamMemberOncePerTeam(s, teamID, email) ==
    IF ~Has(s.teams, teamID) THEN Result(s, ErrNotFound, NoVal)
    ELSE IF ~Has(s.volunteers, email) THEN Result(s, ErrNotFound, NoVal)
    ELSE IF Has(s.teamMembers, teamID) THEN Result(s, ErrAlreadyExists, NoVal)
    ELSE Result([s EXCEPT !.teamMembers = Put(@, teamID, {email})], Nil, NoVal)

\* AddTeamMember whose line 100 assigns a fresh map to s.teamMembers: the
\* member sets of the other teams are gone.
MemAddTeamMemberResettingTeams(s, teamID, email) ==
    IF ~Has(s.teams, teamID) THEN Result(s, ErrNotFound, NoVal)
    ELSE IF ~Has(s.volunteers, email) THEN Result(s, ErrNotFound, NoVal)
    ELSE IF Has(s.teamMembers, teamID) /\ email \in s.teamMembers[teamID]
         THEN Result(s, ErrAlreadyExists, NoVal)
    ELSE Result([s EXCEPT !.teamMembers = Put(EmptyMap, teamID, {email})], Nil, NoVal)

\* Line 98 adds the email to the existing member set; line 100 then runs in
\* every case that reaches it and replaces the team's set by a fresh one.
MemAddTeamMember(s, teamID, email) ==
    IF ~Has(s.teams, teamID) THEN Result(s, ErrNotFound, NoVal)
    ELSE IF ~Has(s.volunteers, email) THEN Result(s, ErrNotFound, NoVal)
    ELSE IF Has(s.teamMembers, teamID) /\ email \in s.teamMembers[teamID]
         THEN Result(s, ErrAlreadyExists, NoVal)
    ELSE LET added == IF Has(s.teamMembers, teamID)
                      THEN [s EXCEPT !.teamMembers[teamID] = @ \cup {email}]
                      ELSE s
         IN  Result([added EXCEPT !.teamMembers = Put(@, teamID, {email})], Nil, NoVal)

\* The volunteers a range over emailSet appends, in the order it visits them.
MemListedVolunteers(s, order) ==
    [i \in 1..Len(order) |-> [s.volunteers[order[i]] EXCEPT !.Password = ""]]

\* The member set a range over s.teamMembers[teamID] iterates (nil map: none).
MemEmailSet(s, teamID) ==
    IF Has(s.teamMembers, teamID) THEN s.teamMembers[teamID] ELSE {}

\* Line 121 dereferences s.volunteers[email]: a nil pointer for an email that
\* is no volunteer, and the call panics.
MemListTeamMembers(s, teamID, order) ==
    IF ~Has(s.teams, teamID)
    THEN Result(s, ErrNotFound, NilSlice)
    ELSE IF \E email \in MemEmailSet(s, teamID) : ~Has(s.volunteers, email)
         THEN Result(s, Panic, NilSlice)
         ELSE Result(s, Nil, Slice(MemListedVolunteers(s, order)))

\* A RemoveTeamMember whose delete is given the wrong map: the volunteer goes.
MemRemoveTeamMemberFromVolunteers(s, teamID, email) ==
    IF ~Has(s.teams, teamID) THEN Result(s, ErrNotFound, NoVal)
    ELSE IF ~Has(s.teamMembers, teamID) THEN Result(s, ErrNotFound, NoVal)
    ELSE IF email \notin s.teamMembers[teamID] THEN Result(s, ErrNotFound, NoVal)
    ELSE Result([s EXCEPT !.volunteers = [e \in DOMAIN @ \ {email} |-> @[e]]], Nil, NoVal)

MemRemoveTeamMember(s, teamID, email) ==
    IF ~Has(s.teams, teamID) THEN Result(s, ErrNotFound, NoVal)
    ELSE IF ~Has(s.teamMembers, teamID) THEN Result(s, ErrNotFound, NoVal)
    ELSE IF email \notin s.teamMembers[teamID] THEN Result(s, ErrNotFound, NoVal)
    ELSE Result([s EXCEPT !.teamMembers[teamID] = @ \ {email}], Nil, NoVal)

\* A CountTeamMembers whose line 153 takes len(s.teamMembers), the number of
\* member sets, for len(emailSet).
MemCountTeamMembersCountingSets(s) ==
    Result(s, Nil, [k \in DOMAIN s.teamMembers |-> Cardinality(DOMAIN s.teamMembers)])

MemCountTeamMembers(s) ==
    Result(s, Nil, [k \in DOMAIN s.teamMembers |-> Cardinality(s.teamMembers[k])])

MemRunHealthcheck(s) == Result(s, Nil, NoVal)

(***************************************************************************)
(* memorystore.Store with its pointers.  s.volunteers and s.teams map to   *)
(* *api.Volunteer and *api.Team: h.objects maps the addresses in use to    *)
(* the objects at them, and the two maps hold addresses.                   *)
(***************************************************************************)
HeapNew ==
    [objects |-> EmptyMap, volunteers |-> EmptyMap, teams |-> EmptyMap, teamMembers |-> EmptyMap]

\* A new object is put at a free address: the lowest one, here.
NewAddr(h) ==
    CHOOSE a \in 1..(Cardinality(DOMAIN h.objects) + 1) :
        /\ a \notin DOMAIN h.objects
        /\ \A b \in 1..(a - 1) : b \in DOMAIN h.objects
Alloc(h, object) == [h EXCEPT !.objects = Put(@, NewAddr(h), object)]

\* The garbage collector frees the objects that neither the maps of the
\* store nor the pointers held by the caller refer to.
Live(h, held) ==
    {h.volunteers[email] : email \in DOMAIN h.volunteers}
        \cup {h.teams[id] : id \in DOMAIN h.teams} \cup held
Collect(h, held) ==
    [h EXCEPT !.objects = [a \in DOMAIN h.objects \cap Live(h, held) |-> h.objects[a]]]

\* What the maps of the store hold once their pointers are followed: a store
\* as the operations on values see it.
HeapView(h) ==
    [volunteers |-> [email \in DOMAIN h.volunteers |-> h.objects[h.volunteers[email]]],
     teams |-> [id \in DOMAIN h.teams |-> h.objects[h.teams[id]]],
     teamMembers |-> h.teamMembers]

\* volunteer is the caller's pointer, and line 33 stores that pointer.
HeapAuthenticateOrCreateVolunteerAccount(h, volunteer) ==
    LET arg == h.objects[volunteer]
    IN  IF ~Has(h.volunteers, arg.Email)
        THEN Result([h EXCEPT !.volunteers = Put(@, arg.Email, volunteer)], Nil, NoVal)
        ELSE IF h.objects[h.volunteers[arg.Email]].Password # arg.Password
             THEN Result(h, ErrPasswordMismatch, NoVal)
             ELSE Result(h, Nil, NoVal)

\* A GetVolunteerByEmail that returns v, the pointer the map holds.
HeapGetVolunteerByEmailShared(h, email) ==
    IF ~Has(h.volunteers, email)
    THEN Result(h, ErrNotFound, NoVal)
    ELSE Result(h, Nil, h.volunteers[email])

\* dupe := *v copies the volunteer into a new object; &dupe is returned.
HeapGetVolunteerByEmail(h, email) ==
    IF ~Has(h.volunteers, email)
    THEN Result(h, ErrNotFound, NoVal)
    ELSE LET dupe == [h.objects[h.volunteers[email]] EXCEPT !.Password = ""]
         IN  Result(Alloc(h, dupe), Nil, NewAddr(h))

\* team is the caller's pointer, and line 63 stores that pointer.
HeapCreateTeam(h, team) ==
    IF Has(h.teams, h.objects[team].ID)
    THEN Result(h, ErrAlreadyExists, NoVal)
    ELSE Result([h EXCEPT !.teams = Put(@, h.objects[team].ID, team)], Nil, NoVal)

\* return t, nil: the pointer the map holds.
HeapGetTeamByID(h, teamID) ==
    IF ~Has(h.teams, teamID)
    THEN Result(h, ErrNotFound, NoVal)
    ELSE Result(h, Nil, h.teams[teamID])

\* AddTeamMember takes strings and touches no volunteer or team object.
HeapAddTeamMember(h, teamID, email) ==
    LET r == MemAddTeamMember(HeapView(h), teamID, email)
    IN  Result([h EXCEPT !.teamMembers = r.store.teamMembers], r.err, r.val)

\* v := *s.volunteers[email] copies each member, and append puts the copy
\* into the slice: the elements of the returned slice are objects of their
\* own. AllocAll gives the heap with them and the addresses they are at.
RECURSIVE AllocAll(_, _, _)
AllocAll(h, objects, ptrs) ==
    IF objects = << >>
    THEN [heap |-> h, ptrs |-> ptrs]
    ELSE AllocAll(Alloc(h, Head(objects)), Tail(objects), Append(ptrs, NewAddr(h)))

HeapListTeamMembers(h, teamID, order) ==
    LET r == MemListTeamMembers(HeapView(h), teamID, order)
        volunteers == AllocAll(h, r.val.items, << >>)
    IN  IF r.err # Nil
        THEN Result(h, r.err, r.val)
        ELSE Result(volunteers.heap, Nil, Slice(volunteers.ptrs))

(***************************************************************************)
(* postgrestore.Store over the tables of 1_init.up.sql.  volunteers maps   *)
(* email (primary key) to the password column, teams maps id (primary key) *)
(* to name, team_members is the set of (team_id, volunteer_email) rows.    *)
(***************************************************************************)
PgNew == [volunteers |-> EmptyMap, teams |-> EmptyMap, team_members |-> {}]

\* pgcrypto: gen_salt draws a salt, crypt(password, setting) hashes the password
\* under the salt of its second argument, which is a salt or an earlier hash.
GenSalt(n) == [salt |-> n, digest |-> << >>]
Crypt(password, setting) == [salt |-> setting.salt, digest |-> <<setting.salt, password>>]

\* The upsert with DO UPDATE SET password = EXCLUDED.password.
PgAuthenticateUpdatingPassword(db, volunteer, n) ==
    LET password == Crypt(volunteer.Password, GenSalt(n))
    IN  Result([db EXCEPT !.volunteers = Put(@, volunteer.Email, password)], Nil, NoVal)

\* INSERT ... ON CONFLICT (email) DO UPDATE SET email = EXCLUDED.email
\* RETURNING volunteers.password = crypt($2, volunteers.password)
PgAuthenticateOrCreateVolunteerAccount(db, volunteer, n) ==
    LET password == IF Has(db.volunteers, volunteer.Email)
                    THEN db.volunteers[volunteer.Email]
                    ELSE Crypt(volunteer.Password, GenSalt(n))
        after == [db EXCEPT !.volunteers = Put(@, volunteer.Email, password)]
        authenticated == password = Crypt(volunteer.Password, password)
    IN  IF ~authenticated
        THEN Result(after, ErrPasswordMismatch, NoVal)
        ELSE Result(after, Nil, NoVal)

\* SELECT * FROM volunteers WHERE email = $1; no row is sql.ErrNoRows,
\* which queryError turns into ErrNotFound.
PgGetVolunteerByEmail(db, email) ==
    IF ~Has(db.volunteers, email)
    THEN Result(db, ErrNotFound, NoVal)
    ELSE LET volunteer == Volunteer(email, db.volunteers[email])
         IN  Result(db, Nil, [volunteer EXCEPT !.Password = ""])

\* INSERT INTO teams: the primary key raises unique_violation.
PgCreateTeam(db, team) ==
    IF Has(db.teams, team.ID)
    THEN Result(db, ErrAlreadyExists, NoVal)
    ELSE Result([db EXCEPT !.teams = Put(@, team.ID, team.Name)], Nil, NoVal)

PgGetTeamByID(db, teamID) ==
    IF ~Has(db.teams, teamID)
    THEN Result(db, ErrNotFound, NoVal)
    ELSE Result(db, Nil, Team(teamID, db.teams[teamID]))

\* team_members without its primary key: a second insert of a row succeeds.
PgAddTeamMemberNoPrimaryKey(db, teamID, email) ==
    IF ~Has(db.teams, teamID) \/ ~Has(db.volunteers, email)
    THEN Result(db, ErrNotFound, NoVal)
    ELSE Result([db EXCEPT !.team_members = @ \cup {<<teamID, email>>}], Nil, NoVal)

\* team_members without REFERENCES teams (id).
PgAddTeamMemberNoTeamKey(db, teamID, email) ==
    IF <<teamID, email>> \in db.team_members THEN Result(db, ErrAlreadyExists, NoVal)
    ELSE IF ~Has(db.volunteers, email) THEN Result(db, ErrNotFound, NoVal)
    ELSE Result([db EXCEPT !.team_members = @ \cup {<<teamID, email>>}], Nil, NoVal)

\* INSERT INTO team_members: the primary key raises unique_violation, the two
\* REFERENCES raise foreign_key_violation.
PgAddTeamMember(db, teamID, email) ==
    IF <<teamID, email>> \in db.team_members THEN Result(db, ErrAlreadyExists, NoVal)
    ELSE IF ~Has(db.teams, teamID) \/ ~Has(db.volunteers, email)
         THEN Result(db, ErrNotFound, NoVal)
    ELSE Result([db EXCEPT !.team_members = @ \cup {<<teamID, email>>}], Nil, NoVal)

\* SELECT v.email FROM volunteers AS v INNER JOIN team_members AS tm ...
PgJoinedEmails(db, teamID) ==
    {email \in DOMAIN db.volunteers : <<teamID, email>> \in db.team_members}

\* Only the email column is scanned; sqlx appends one Volunteer per row and
\* leaves the slice nil when there is no row. No row is not an error here.
PgListTeamMembers(db, teamID, order) ==
    IF order = << >>
    THEN Result(db, Nil, NilSlice)
    ELSE Result(db, Nil, Slice([i \in 1..Len(order) |-> Volunteer(order[i], "")]))

\* DELETE FROM team_members ...; RowsAffected() = 0 is ErrNotFound.
PgRemoveTeamMember(db, teamID, email) ==
    LET after == [db EXCEPT !.team_members = @ \ {<<teamID, email>>}]
        n == Cardinality(db.team_members) - Cardinality(after.team_members)
    IN  IF n = 0 THEN Result(after, ErrNotFound, NoVal) ELSE Result(after, Nil, NoVal)

\* SELECT team_id, COUNT(*) FROM team_members GROUP BY team_id
PgCountTeamMembers(db) ==
    LET ids == {row[1] : row \in db.team_members}
    IN  Result(db, Nil, [id \in ids |-> Cardinality({row \in db.team_members : row[1] = id})])

\* RunHealthcheck pings the database, which this model keeps reachable.
PgRunHealthcheck(db) == Result(db, Nil, NoVal)

(***************************************************************************)
(* The API handlers (package api).                                         *)
(***************************************************************************)
\* c.Get("user"): nothing, or the token the JWT middleware stored.
NoUser == [present |-> FALSE, claims |-> EmptyMap]
Token(claims) == [present |-> TRUE, claims |-> claims]
UserContexts ==
    {NoUser, Token(EmptyMap)} \cup {Token([k \in {"email"} |-> email]) : email \in Emails}

GetEmailFromJWTToken(user) ==
    IF ~user.present THEN [email |-> "", ok |-> FALSE]
    ELSE IF ~Has(user.claims, "email") THEN [email |-> "", ok |-> FALSE]
    ELSE [email |-> user.claims["email"], ok |-> TRUE]

\* encoding/json of api.Volunteer: password carries omitempty.
JSONVolunteer(volunteer) ==
    IF volunteer.Password = ""
    THEN [email |-> volunteer.Email]
    ELSE [email |-> volunteer.Email, password |-> volunteer.Password]

ErrUnauthorized == "echo.ErrUnauthorized"
StatusOK == 200
NoBody == "-"
Response(err, code, body) == [err |-> err, code |-> code, body |-> body]

\* api.store is the Store interface: the call goes to the store configured.
StoreGetVolunteerByEmail(kind, store, email) ==
    IF kind = "memorystore"
    THEN MemGetVolunteerByEmail(store, email)
    ELSE PgGetVolunteerByEmail(store, email)

GetMe(kind, store, user) ==
    LET who == GetEmailFromJWTToken(user)
    IN  IF ~who.ok THEN Response(ErrUnauthorized, 0, NoBody)
        ELSE LET got == StoreGetVolunteerByEmail(kind, store, who.email)
             IN  IF got.err # Nil THEN Response(got.err, 0, NoBody)
                 ELSE Response(Nil, StatusOK, JSONVolunteer(got.val))

\* encoding/json of api.Team: name carries omitempty.
JSONTeam(team) ==
    IF team.Name = "" THEN [id |-> team.ID] ELSE [id |-> team.ID, name |-> team.Name]

StatusCreated == 201
StatusBadRequest == 400
StatusUnauthorized == 401
StatusNotFound == 404
StatusConflict == 409
StatusInternalServerError == 500

\* The *echo.HTTPError values the handlers and the middleware return.
EchoErrNotFound == "echo.ErrNotFound"
ErrBadRequest == "echo.NewHTTPError(http.StatusBadRequest)"
ErrConflict == "echo.NewHTTPError(http.StatusConflict)"
ErrJWTMissing == "middleware.ErrJWTMissing"
ErrJWTInvalid == "invalid or expired jwt"
HTTPErrorCode ==
    (ErrUnauthorized :> StatusUnauthorized) @@ (EchoErrNotFound :> StatusNotFound) @@
    (ErrBadRequest :> StatusBadRequest) @@ (ErrConflict :> StatusConflict) @@
    (ErrJWTMissing :> StatusBadRequest) @@ (ErrJWTInvalid :> StatusUnauthorized)

\* The status the client gets: the code of an *echo.HTTPError, 500 for any
\* other error, the code the handler wrote, and 200 when the handler
\* returned nil without writing a response.
Status(resp) ==
    IF resp.err # Nil
    THEN IF resp.err \in DOMAIN HTTPErrorCode
         THEN HTTPErrorCode[resp.err]
         ELSE StatusInternalServerError
    ELSE IF resp.code = 0 THEN StatusOK ELSE resp.code

\* What serving a request comes to: the store it leaves, the Store calls
\* made (operation and error, in order), and the handler's response.
StoreCall(op, err) == [op |-> op, err |-> err]
Handled(store, called, resp) == [store |-> store, called |-> called, resp |-> resp]

\* token.SignedString(key): the claims, and the key that signs them.
SignedString(claims, key) == [claims |-> claims, key |-> key]

\* api.tokenSecret and the key of the JWT middleware: config.JWTSecret.
TokenSecret == "top-secret"

\* exp is time.Now().Add(api.tokenExpiration).Unix(), t being time.Now().Unix().
GenerateJWTToken(volunteer, t) ==
    LET claims == [email |-> volunteer.Email, exp |-> t + tokenExpiration]
    IN  SignedString(claims, TokenSecret)

StoreAuthenticateOrCreateVolunteerAccount(kind, store, volunteer, n) ==
    IF kind = "memorystore"
    THEN MemAuthenticateOrCreateVolunteerAccount(store, volunteer)
    ELSE PgAuthenticateOrCreateVolunteerAccount(store, volunteer, n)

StoreCreateTeam(kind, store, team) ==
    IF kind = "memorystore" THEN MemCreateTeam(store, team) ELSE PgCreateTeam(store, team)

StoreGetTeamByID(kind, store, teamID) ==
    IF kind = "memorystore" THEN MemGetTeamByID(store, teamID) ELSE PgGetTeamByID(store, teamID)

StoreAddTeamMember(kind, store, teamID, email) ==
    IF kind = "memorystore"
    THEN MemAddTeamMember(store, teamID, email)
    ELSE PgAddTeamMember(store, teamID, email)

StoreListTeamMembers(kind, store, teamID, order) ==
    IF kind = "memorystore"
    THEN MemListTeamMembers(store, teamID, order)
    ELSE PgListTeamMembers(store, teamID, order)

StoreRemoveTeamMember(kind, store, teamID, email) ==
    IF kind = "memorystore"
    THEN MemRemoveTeamMember(store, teamID, email)
    ELSE PgRemoveTeamMember(store, teamID, email)

\* A login that hands out a token whatever the store answered.
PostLoginIssuingAlways(kind, store, volunteer, n, t) ==
    LET r == StoreAuthenticateOrCreateVolunteerAccount(kind, store, volunteer, n)
    IN  Handled(r.store, <<StoreCall("AuthenticateOrCreateVolunteerAccount", r.err)>>,
                Response(Nil, StatusOK, [token |-> GenerateJWTToken(volunteer, t)]))

\* A login without the validation of the body.
PostLoginUnvalidated(kind, store, volunteer, n, t) ==
    LET r == StoreAuthenticateOrCreateVolunteerAccount(kind, store, volunteer, n)
        called == <<StoreCall("AuthenticateOrCreateVolunteerAccount", r.err)>>
    IN  IF r.err = ErrPasswordMismatch
        THEN Handled(r.store, called, Response(ErrUnauthorized, 0, NoBody))
        ELSE Handled(r.store, called,
                     Response(Nil, StatusOK, [token |-> GenerateJWTToken(volunteer, t)]))

\* t is time.Now().Unix() when the token is generated, n what gen_salt draws.
PostLogin(kind, store, volunteer, n, t) ==
    IF volunteer.Email = "" \/ volunteer.Password = ""
    THEN Handled(store, << >>, Response(ErrBadRequest, 0, NoBody))
    ELSE LET r == StoreAuthenticateOrCreateVolunteerAccount(kind, store, volunteer, n)
             called == <<StoreCall("AuthenticateOrCreateVolunteerAccount", r.err)>>
         IN  IF r.err = ErrPasswordMismatch
             THEN Handled(r.store, called, Response(ErrUnauthorized, 0, NoBody))
             ELSE IF r.err # Nil
             THEN Handled(r.store, called, Response(r.err, 0, NoBody))
             ELSE Handled(r.store, called,
                          Response(Nil, StatusOK, [token |-> GenerateJWTToken(volunteer, t)]))

\* The Store calls GetMe makes.
GetMeCalled(kind, store, user) ==
    LET who == GetEmailFromJWTToken(user)
    IN  IF ~who.ok THEN << >>
        ELSE <<StoreCall("GetVolunteerByEmail",
                         StoreGetVolunteerByEmail(kind, store, who.email).err)>>

PostTeam(kind, store, team) ==
    IF team.ID = ""
    THEN Handled(store, << >>, Response(ErrBadRequest, 0, NoBody))
    ELSE LET r == StoreCreateTeam(kind, store, team)
             called == <<StoreCall("CreateTeam", r.err)>>
         IN  IF r.err = ErrAlreadyExists
             THEN Handled(r.store, called, Response(ErrConflict, 0, NoBody))
             ELSE IF r.err # Nil
             THEN Handled(r.store, called, Response(r.err, 0, NoBody))
             ELSE Handled(r.store, called, Response(Nil, StatusCreated, JSONTeam(team)))

APIGetTeamByID(kind, store, teamID) ==
    LET r == StoreGetTeamByID(kind, store, teamID)
        called == <<StoreCall("GetTeamByID", r.err)>>
    IN  IF r.err = ErrNotFound
        THEN Handled(r.store, called, Response(EchoErrNotFound, 0, NoBody))
        ELSE IF r.err # Nil
        THEN Handled(r.store, called, Response(r.err, 0, NoBody))
        ELSE Handled(r.store, called, Response(Nil, StatusOK, JSONTeam(r.val)))

\* A nil slice of members is answered as [], like an empty one.
GetTeamMembers(kind, store, teamID, order) ==
    LET r == StoreListTeamMembers(kind, store, teamID, order)
        called == <<StoreCall("ListTeamMembers", r.err)>>
    IN  IF r.err # Nil
        THEN Handled(r.store, called, Response(r.err, 0, NoBody))
        ELSE Handled(r.store, called,
                     Response(Nil, StatusOK,
                              [i \in 1..Len(r.val.items) |-> JSONVolunteer(r.val.items[i])]))

\* On ErrAlreadyExists the handler returns nil and has written no response.
PutTeamMemberByEmail(kind, store, teamID, email) ==
    LET r == StoreAddTeamMember(kind, store, teamID, email)
        called == <<StoreCall("AddTeamMember", r.err)>>
    IN  IF r.err = ErrNotFound
        THEN Handled(r.store, called, Response(EchoErrNotFound, 0, NoBody))
        ELSE IF r.err = ErrAlreadyExists
        THEN Handled(r.store, called, Response(Nil, 0, NoBody))
        ELSE IF r.err # Nil
        THEN Handled(r.store, called, Response(r.err, 0, NoBody))
        ELSE Handled(r.store, called, Response(Nil, StatusCreated, NoBody))

\* The handler returns what RemoveTeamMember returned.
DeleteTeamMemberByEmail(kind, store, teamID, email) ==
    LET r == StoreRemoveTeamMember(kind, store, teamID, email)
    IN  Handled(r.store, <<StoreCall("RemoveTeamMember", r.err)>>, Response(r.err, 0, NoBody))

(***************************************************************************)
(* The routes of initEcho and their middleware.                            *)
(***************************************************************************)
\* The Authorization header of a request: absent, "Bearer" followed by
\* something that is no JWT, or "Bearer" followed by a JWT.
NoJWT == SignedString([email |-> "", exp |-> 0], "")
NoAuthorization == [bearer |-> FALSE, parses |-> FALSE, jwt |-> NoJWT]
Malformed == [bearer |-> TRUE, parses |-> FALSE, jwt |-> NoJWT]
Bearer(jwt) == [bearer |-> TRUE, parses |-> TRUE, jwt |-> jwt]

\* middleware.JWT(key) of echo v3.3.10 over jwt-go v3.2.0: no bearer token is
\* ErrJWTMissing; a token that does not parse, whose HS256 signature does not
\* verify under the key, or whose claims are not valid is "invalid or expired
\* jwt"; MapClaims.Valid finds exp valid while now <= exp. A valid token is
\* stored in the context as "user".
JWTMiddleware(auth, t) ==
    IF ~auth.bearer
    THEN [ok |-> FALSE, err |-> ErrJWTMissing, user |-> NoUser]
    ELSE IF ~auth.parses \/ auth.jwt.key # TokenSecret \/ ~(t <= auth.jwt.claims.exp)
    THEN [ok |-> FALSE, err |-> ErrJWTInvalid, user |-> NoUser]
    ELSE [ok |-> TRUE, err |-> Nil, user |-> Token(auth.jwt.claims)]

\* A check that lets every authenticated user act on every email.
LimitEmailToAnyUser(user, emailParam) ==
    IF ~GetEmailFromJWTToken(user).ok THEN ErrUnauthorized ELSE Nil

\* The error limitEmailToCurrentUser returns, Nil when it calls next.
LimitEmailToCurrentUser(user, emailParam) ==
    LET who == GetEmailFromJWTToken(user)
    IN  IF ~who.ok \/ who.email # emailParam THEN ErrUnauthorized ELSE Nil

\* A middleware returned an error: the handler does not run.
Rejected(store, err) == Handled(store, << >>, Response(err, 0, NoBody))

\* v.POST("/login", a.PostLogin)
RoutePostLogin(kind, store, volunteer, n, t) == PostLogin(kind, store, volunteer, n, t)

\* v.GET("/me", a.GetMe, jwtMiddleware)
RouteGetMe(kind, store, auth, t) ==
    LET mw == JWTMiddleware(auth, t)
    IN  IF ~mw.ok THEN Rejected(store, mw.err)
        ELSE Handled(store, GetMeCalled(kind, store, mw.user), GetMe(kind, store, mw.user))

\* t := e.Group("/v1/teams", jwtMiddleware); t.POST("", a.PostTeam)
RoutePostTeam(kind, store, auth, t, team) ==
    LET mw == JWTMiddleware(auth, t)
    IN  IF ~mw.ok THEN Rejected(store, mw.err) ELSE PostTeam(kind, store, team)

\* t.GET("/:id", a.GetTeamByID)
RouteGetTeamByID(kind, store, auth, t, teamID) ==
    LET mw == JWTMiddleware(auth, t)
    IN  IF ~mw.ok THEN Rejected(store, mw.err) ELSE APIGetTeamByID(kind, store, teamID)

\* t.GET("/:id/members", a.GetTeamMembers)
RouteGetTeamMembers(kind, store, auth, t, teamID, order) ==
    LET mw == JWTMiddleware(auth, t)
    IN  IF ~mw.ok THEN Rejected(store, mw.err) ELSE GetTeamMembers(kind, store, teamID, order)

\* t.PUT("/:id/members/:email", a.PutTeamMemberByEmail, limitEmailToCurrentUser)
RoutePutTeamMember(kind, store, auth, t, teamID, email) ==
    LET mw == JWTMiddleware(auth, t)
    IN  IF ~mw.ok THEN Rejected(store, mw.err)
        ELSE IF LimitEmailToCurrentUser(mw.user, email) # Nil
        THEN Rejected(store, LimitEmailToCurrentUser(mw.user, email))
        ELSE PutTeamMemberByEmail(kind, store, teamID, email)

\* t.DELETE("/:id/members/:email", a.DeleteTeamMemberByEmail, limitEmailToCurrentUser)
RouteDeleteTeamMember(kind, store, auth, t, teamID, email) ==
    LET mw == JWTMiddleware(auth, t)
    IN  IF ~mw.ok THEN Rejected(store, mw.err)
        ELSE IF LimitEmailToCurrentUser(mw.user, email) # Nil
        THEN Rejected(store, LimitEmailToCurrentUser(mw.user, email))
        ELSE DeleteTeamMemberByEmail(kind, store, teamID, email)

(***************************************************************************)
(* runServerUntilInterrupted (main.go): the calling goroutine, the         *)
(* goroutine it starts to wait for a signal, their two channels, the       *)
(* http.Server and the signals the process is sent. main and handler are   *)
(* the lines of main.go the two goroutines execute next.                   *)
(***************************************************************************)
\* signal.Notify(sigCh, syscall.SIGINT, syscall.SIGTERM)
Signals == {"interrupt", "terminated"}

\* http.ErrServerClosed, and the other errors ListenAndServe ends with: of
\* net.Listen and of the listener's Accept.
ErrServerClosed == "http: Server closed"
ServerErrors ==
    [listen |-> "listen tcp: bind: address already in use",
     accept |-> "accept tcp: too many open files in system"]

\* errors.Wrap(err, message): nil for a nil err.
Wrap(err, message) == IF err = Nil THEN Nil ELSE message \o ": " \o err

\* The call is about to start: no channel and no goroutine yet, the server
\* not started, the signals at their default disposition.
RunNew ==
    [main |-> 277, handler |-> 0, sigCh |-> << >>, notified |-> FALSE, sig |-> NoVal,
     termAckCh |-> "open", listener |-> "none", inShutdown |-> FALSE, conns |-> 0,
     err |-> NoVal, returned |-> NoVal, signals |-> 0, killed |-> FALSE]

(***************************************************************************)
(* Spec: one caller applies each Store operation to both stores.           *)
(***************************************************************************)
Outcome(r) == [err |-> r.err, val |-> r.val]
Ret(op, arg, m, p) == [op |-> op, arg |-> arg, mem |-> m, pg |-> p]

NoFrame ==
    [op |-> "-", arg |-> NoVal, unseen |-> FALSE, ok |-> FALSE, created |-> FALSE,
     done |-> FALSE, err |-> Nil, val |-> NoVal]

Init ==
    /\ mem = MemNew
    /\ pg = PgNew
    /\ ret = Ret("New", NoVal, NoVal, NoVal)
    /\ calls = 0
    /\ mu = [writer |-> NoProc, readers |-> {}]
    /\ pc = [p \in Procs |-> 0]
    /\ frame = [p \in Procs |-> NoFrame]
    /\ authLog = [email \in Emails |-> [calls |-> 0, passwords |-> {}, creates |-> 0]]
    /\ joined = [teamID \in TeamIDs |-> {}]
    /\ now = 0
    /\ issued = {}
    /\ heap = HeapNew
    /\ run = RunNew

\* The emails that joined a team and have not left it, as the in-memory
\* store reported it: a successful AddTeamMember adds one, a successful
\* RemoveTeamMember takes one away.
Joined(op, arg, m) ==
    IF op = "AddTeamMember" /\ m.err = Nil
    THEN [joined EXCEPT ![arg[1]] = @ \cup {arg[2]}]
    ELSE IF op = "RemoveTeamMember" /\ m.err = Nil
         THEN [joined EXCEPT ![arg[1]] = @ \ {arg[2]}]
         ELSE joined

\* The single caller made one more call, while the behaviour's budget lasts:
\* what both stores returned is recorded. The goroutines of the concurrent
\* specifications stay where they are.
Called(op, arg, m, p) ==
    /\ calls < MaxCalls
    /\ calls' = calls + 1
    /\ ret' = Ret(op, arg, m, p)
    /\ joined' = Joined(op, arg, m)
    /\ UNCHANGED <<mu, pc, frame, authLog, now, issued, heap, run>>

AuthenticateOrCreateVolunteerAccount ==
    \E email \in Emails, password \in Passwords, n \in Salts :
        LET volunteer == Volunteer(email, password)
            m == MemAuthenticateOrCreateVolunteerAccount(mem, volunteer)
            p == PgAuthenticateOrCreateVolunteerAccount(pg, volunteer, n)
        IN  /\ mem' = m.store
            /\ pg' = p.store
            /\ Called("AuthenticateOrCreateVolunteerAccount", volunteer, Outcome(m), Outcome(p))

GetVolunteerByEmail ==
    \E email \in Emails :
        LET m == MemGetVolunteerByEmail(mem, email)
            p == PgGetVolunteerByEmail(pg, email)
        IN  /\ mem' = m.store
            /\ pg' = p.store
            /\ Called("GetVolunteerByEmail", email, Outcome(m), Outcome(p))

CreateTeam ==
    \E id \in TeamIDs, name \in Names :
        LET team == Team(id, name)
            m == MemCreateTeam(mem, team)
            p == PgCreateTeam(pg, team)
        IN  /\ mem' = m.store
            /\ pg' = p.store
            /\ Called("CreateTeam", team, Outcome(m), Outcome(p))

GetTeamByID ==
    \E teamID \in TeamIDs :
        LET m == MemGetTeamByID(mem, teamID)
            p == PgGetTeamByID(pg, teamID)
        IN  /\ mem' = m.store
            /\ pg' = p.store
            /\ Called("GetTeamByID", teamID, Outcome(m), Outcome(p))

AddTeamMember ==
    \E teamID \in TeamIDs, email \in Emails :
        LET m == MemAddTeamMember(mem, teamID, email)
            p == PgAddTeamMember(pg, teamID, email)
        IN  /\ mem' = m.store
            /\ pg' = p.store
            /\ Called("AddTeamMember", <<teamID, email>>, Outcome(m), Outcome(p))

ListTeamMembers ==
    \E teamID \in TeamIDs :
        \E mo \in Orders(MemEmailSet(mem, teamID)), po \in Orders(PgJoinedEmails(pg, teamID)) :
            LET m == MemListTeamMembers(mem, teamID, mo)
                p == PgListTeamMembers(pg, teamID, po)
            IN  /\ mem' = m.store
                /\ pg' = p.store
                /\ Called("ListTeamMembers", teamID, Outcome(m), Outcome(p))

RemoveTeamMember ==
    \E teamID \in TeamIDs, email \in Emails :
        LET m == MemRemoveTeamMember(mem, teamID, email)
            p == PgRemoveTeamMember(pg, teamID, email)
        IN  /\ mem' = m.store
            /\ pg' = p.store
            /\ Called("RemoveTeamMember", <<teamID, email>>, Outcome(m), Outcome(p))

CountTeamMembers ==
    LET m == MemCountTeamMembers(mem)
        p == PgCountTeamMembers(pg)
    IN  /\ mem' = m.store
        /\ pg' = p.store
        /\ Called("CountTeamMembers", NoVal, Outcome(m), Outcome(p))

RunHealthcheck ==
    LET m == MemRunHealthcheck(mem)
        p == PgRunHealthcheck(pg)
    IN  /\ mem' = m.store
        /\ pg' = p.store
        /\ Called("RunHealthcheck", NoVal, Outcome(m), Outcome(p))

\* GET /v1/volunteers/me, served from either store.
HandleGetMe ==
    \E user \in UserContexts :
        /\ Called("GetMe", user, GetMe("memorystore", mem, user),
                                 GetMe("postgrestore", pg, user))
        /\ UNCHANGED <<mem, pg>>

Next ==
    \/ AuthenticateOrCreateVolunteerAccount
    \/ GetVolunteerByEmail
    \/ CreateTeam
    \/ GetTeamByID
    \/ AddTeamMember
    \/ ListTeamMembers
    \/ RemoveTeamMember
    \/ CountTeamMembers
    \/ RunHealthcheck
    \/ HandleGetMe

Spec == Init /\ [][Next]_vars

(***************************************************************************)
(* SpecConc: NumProcs goroutines call the in-memory store concurrently.    *)
(* Each step is one statement, or one run of statements, of store.go; pc   *)
(* is the line a goroutine executes next.                                  *)
(***************************************************************************)
\* sync.RWMutex: Lock waits for the writer and the readers to leave, RLock
\* for the writer.
\* A Lock that never waits.
CanLockAlways(m) == TRUE
CanLock(m) == m.writer = NoProc /\ m.readers = {}
CanRLock(m) == m.writer = NoProc
Unlock(m) == [m EXCEPT !.writer = NoProc]
RUnlock(m, p) == [m EXCEPT !.readers = @ \ {p}]

\* The Go runtime ends the program when it catches a map being iterated
\* while another goroutine writes it.
FatalError == "fatal error: concurrent map iteration and map write"
Crashed == \E p \in Procs : frame[p].err = FatalError

\* A step of a goroutine: the program has not crashed, and the relational
\* store and the single caller's record are not involved.
Running == ~Crashed /\ UNCHANGED <<pg, ret, joined, now, issued, heap, run>>

\* The first line of each operation.
Entry ==
    [AuthenticateOrCreateVolunteerAccount |-> 28, GetVolunteerByEmail |-> 43,
     CreateTeam |-> 57, GetTeamByID |-> 68, AddTeamMember |-> 79,
     ListTeamMembers |-> 107, RemoveTeamMember |-> 129, CountTeamMembers |-> 151]

\* The arguments each operation may be called with.
Args(op) ==
    CASE op = "AuthenticateOrCreateVolunteerAccount" ->
            {Volunteer(email, password) : email \in Emails, password \in Passwords}
      [] op \in {"GetVolunteerByEmail"} -> Emails
      [] op = "CreateTeam" -> {Team(id, "The Gophers") : id \in TeamIDs}
      [] op \in {"GetTeamByID", "ListTeamMembers"} -> TeamIDs
      [] op \in {"AddTeamMember", "RemoveTeamMember"} -> TeamIDs \X Emails
      [] op = "CountTeamMembers" -> {NoVal}

\* A goroutine enters one of the Store operations ops.
Invoke(p, ops) ==
    /\ pc[p] = 0
    /\ Running
    /\ calls < MaxCalls
    /\ \E op \in ops :
        \E arg \in Args(op) :
            /\ frame' = [frame EXCEPT ![p] =
                  [NoFrame EXCEPT !.op = op, !.arg = arg,
                                  !.unseen = /\ op = "AuthenticateOrCreateVolunteerAccount"
                                             /\ ~Has(mem.volunteers, arg.Email)]]
            /\ pc' = [pc EXCEPT ![p] = Entry[op]]
            /\ authLog' =
                  IF op = "AuthenticateOrCreateVolunteerAccount"
                  THEN [authLog EXCEPT ![arg.Email].calls = @ + 1,
                                       ![arg.Email].passwords = @ \cup {arg.Password}]
                  ELSE authLog
    /\ calls' = calls + 1
    /\ UNCHANGED <<mem, mu>>

\* The operation returns: its result is left in the frame.
Return(p, err, val) ==
    /\ frame' = [frame EXCEPT ![p].err = err, ![p].val = val, ![p].done = TRUE]
    /\ pc' = [pc EXCEPT ![p] = 0]

Goto(p, line) == pc' = [pc EXCEPT ![p] = line]

\* s.mu.Lock() at the head of the four mutating operations.
Lock(p) ==
    /\ pc[p] \in {28, 57, 79, 129}
    /\ Running
    /\ CanLock(mu)
    /\ mu' = [mu EXCEPT !.writer = p]
    /\ Goto(p, CASE pc[p] = 28 -> 31 [] pc[p] = 57 -> 60 [] pc[p] = 79 -> 83 [] pc[p] = 129 -> 133)
    /\ UNCHANGED <<mem, frame, authLog, calls>>

\* s.mu.RLock() at the head of three of the four reading operations.
RLock(p) ==
    /\ pc[p] \in {43, 68, 107}
    /\ Running
    /\ CanRLock(mu)
    /\ mu' = [mu EXCEPT !.readers = @ \cup {p}]
    /\ Goto(p, CASE pc[p] = 43 -> 46 [] pc[p] = 68 -> 71 [] pc[p] = 107 -> 111)
    /\ UNCHANGED <<mem, frame, authLog, calls>>

\* v, ok := s.volunteers[volunteer.Email]
AuthLookup(p) ==
    /\ pc[p] = 31
    /\ Running
    /\ frame' = [frame EXCEPT ![p].ok = Has(mem.volunteers, frame[p].arg.Email)]
    /\ Goto(p, 32)
    /\ UNCHANGED <<mem, mu, authLog, calls>>

\* if !ok { store; return nil }; compare the passwords; the deferred Unlock.
AuthReturn(p) ==
    /\ pc[p] = 32
    /\ Running
    /\ LET volunteer == frame[p].arg
       IN  IF ~frame[p].ok
           THEN /\ mem' = [mem EXCEPT !.volunteers = Put(@, volunteer.Email, volunteer)]
                /\ frame' = [frame EXCEPT ![p].created = TRUE, ![p].done = TRUE]
                /\ authLog' = [authLog EXCEPT ![volunteer.Email].creates = @ + 1]
                /\ Goto(p, 0)
           ELSE /\ Return(p, IF mem.volunteers[volunteer.Email].Password # volunteer.Password
                             THEN ErrPasswordMismatch ELSE Nil, NoVal)
                /\ UNCHANGED <<mem, authLog>>
    /\ mu' = Unlock(mu)
    /\ UNCHANGED calls

\* The body of GetVolunteerByEmail, under the shared lock.
GetVolunteerBody(p) ==
    /\ pc[p] = 46
    /\ Running
    /\ LET r == MemGetVolunteerByEmail(mem, frame[p].arg)
       IN  Return(p, r.err, r.val)
    /\ mu' = RUnlock(mu, p)
    /\ UNCHANGED <<mem, authLog, calls>>

\* _, ok := s.teams[team.ID]
CreateTeamLookup(p) ==
    /\ pc[p] = 60
    /\ Running
    /\ frame' = [frame EXCEPT ![p].ok = Has(mem.teams, frame[p].arg.ID)]
    /\ Goto(p, 61)
    /\ UNCHANGED <<mem, mu, authLog, calls>>

CreateTeamReturn(p) ==
    /\ pc[p] = 61
    /\ Running
    /\ IF frame[p].ok
       THEN Return(p, ErrAlreadyExists, NoVal) /\ UNCHANGED mem
       ELSE /\ mem' = [mem EXCEPT !.teams = Put(@, frame[p].arg.ID, frame[p].arg)]
            /\ Return(p, Nil, NoVal)
    /\ mu' = Unlock(mu)
    /\ UNCHANGED <<authLog, calls>>

\* The body of GetTeamByID, under the shared lock.
GetTeamBody(p) ==
    /\ pc[p] = 71
    /\ Running
    /\ LET r == MemGetTeamByID(mem, frame[p].arg)
       IN  Return(p, r.err, r.val)
    /\ mu' = RUnlock(mu, p)
    /\ UNCHANGED <<mem, authLog, calls>>

\* Lines 83-97 of AddTeamMember: the three lookups, which return an error
\* or go on to line 98 (the team has a member set) or to line 100.
AddTeamMemberChecks(p) ==
    /\ pc[p] = 83
    /\ Running
    /\ LET teamID == frame[p].arg[1]
           email == frame[p].arg[2]
       IN  IF ~Has(mem.teams, teamID) \/ ~Has(mem.volunteers, email)
           THEN Return(p, ErrNotFound, NoVal) /\ mu' = Unlock(mu)
           ELSE IF Has(mem.teamMembers, teamID) /\ email \in mem.teamMembers[teamID]
           THEN Return(p, ErrAlreadyExists, NoVal) /\ mu' = Unlock(mu)
           ELSE /\ Goto(p, IF Has(mem.teamMembers, teamID) THEN 98 ELSE 100)
                /\ UNCHANGED <<frame, mu>>
    /\ UNCHANGED <<mem, authLog, calls>>

\* members[email] = struct{}{}
AddTeamMemberInsert(p) ==
    /\ pc[p] = 98
    /\ Running
    /\ mem' = [mem EXCEPT !.teamMembers[frame[p].arg[1]] = @ \cup {frame[p].arg[2]}]
    /\ Goto(p, 100)
    /\ UNCHANGED <<frame, mu, authLog, calls>>

\* s.teamMembers[teamID] = map[string]struct{}{email: struct{}{}}; return nil
AddTeamMemberReplace(p) ==
    /\ pc[p] = 100
    /\ Running
    /\ mem' = [mem EXCEPT !.teamMembers = Put(@, frame[p].arg[1], {frame[p].arg[2]})]
    /\ Return(p, Nil, NoVal)
    /\ mu' = Unlock(mu)
    /\ UNCHANGED <<authLog, calls>>

\* The body of ListTeamMembers, under the shared lock.
ListTeamMembersBody(p) ==
    /\ pc[p] = 111
    /\ Running
    /\ \E order \in Orders(MemEmailSet(mem, frame[p].arg)) :
           LET r == MemListTeamMembers(mem, frame[p].arg, order)
           IN  Return(p, r.err, r.val)
    /\ mu' = RUnlock(mu, p)
    /\ UNCHANGED <<mem, authLog, calls>>

\* Lines 133-144 of RemoveTeamMember: the three lookups.
RemoveTeamMemberChecks(p) ==
    /\ pc[p] = 133
    /\ Running
    /\ LET teamID == frame[p].arg[1]
           email == frame[p].arg[2]
       IN  IF \/ ~Has(mem.teams, teamID)
              \/ ~Has(mem.teamMembers, teamID)
              \/ email \notin MemEmailSet(mem, teamID)
           THEN Return(p, ErrNotFound, NoVal) /\ mu' = Unlock(mu)
           ELSE Goto(p, 146) /\ UNCHANGED <<frame, mu>>
    /\ UNCHANGED <<mem, authLog, calls>>

\* delete(members, email); return nil
RemoveTeamMemberDelete(p) ==
    /\ pc[p] = 146
    /\ Running
    /\ mem' = [mem EXCEPT !.teamMembers[frame[p].arg[1]] = @ \ {frame[p].arg[2]}]
    /\ Return(p, Nil, NoVal)
    /\ mu' = Unlock(mu)
    /\ UNCHANGED <<authLog, calls>>

\* counts := make(map[string]int, len(s.teamMembers)): no lock is taken.
CountTeamMembersMake(p) ==
    /\ pc[p] = 151
    /\ Running
    /\ Goto(p, 152)
    /\ UNCHANGED <<mem, mu, frame, authLog, calls>>

\* The range over s.teamMembers. It races with the writers: it sees the maps
\* as they are at this moment, between the writes of another goroutine, and
\* while another goroutine assigns into s.teamMembers (line 100) the runtime
\* may catch the race and end the program.
CountTeamMembersRange(p) ==
    /\ pc[p] = 152
    /\ Running
    /\ \/ Return(p, Nil, MemCountTeamMembers(mem).val)
       \/ /\ \E q \in Procs : pc[q] = 100
          /\ Return(p, FatalError, NoVal)
    /\ UNCHANGED <<mem, mu, authLog, calls>>

Step(p) ==
    \/ Invoke(p, DOMAIN Entry)
    \/ Lock(p)
    \/ RLock(p)
    \/ AuthLookup(p)
    \/ AuthReturn(p)
    \/ GetVolunteerBody(p)
    \/ CreateTeamLookup(p)
    \/ CreateTeamReturn(p)
    \/ GetTeamBody(p)
    \/ AddTeamMemberChecks(p)
    \/ AddTeamMemberInsert(p)
    \/ AddTeamMemberReplace(p)
    \/ ListTeamMembersBody(p)
    \/ RemoveTeamMemberChecks(p)
    \/ RemoveTeamMemberDelete(p)
    \/ CountTeamMembersMake(p)
    \/ CountTeamMembersRange(p)

NextConc == \E p \in Procs : Step(p)

SpecConc == Init /\ [][NextConc]_vars

(***************************************************************************)
(* SpecLogin: the goroutines all call AuthenticateOrCreateVolunteerAccount,*)
(* as concurrent logins do.                                                *)
(***************************************************************************)
NextLogin ==
    \E p \in Procs :
        \/ Invoke(p, {"AuthenticateOrCreateVolunteerAccount"})
        \/ Lock(p)
        \/ AuthLookup(p)
        \/ AuthReturn(p)

SpecLogin == Init /\ [][NextLogin]_vars

(***************************************************************************)
(* SpecJoin: volunteers have logged in and teams have been created; the    *)
(* goroutines then call AddTeamMember, once each and concurrently, as      *)
(* concurrent PUTs of team members do.                                     *)
(***************************************************************************)
\* The store after the logins and the CreateTeam calls: what lines 33 and 63
\* stored, and no member set yet.
InitJoin ==
    /\ \E registered \in SUBSET Emails, created \in SUBSET TeamIDs :
          mem = [MemNew EXCEPT
                    !.volunteers = [email \in registered |-> Volunteer(email, "secret")],
                    !.teams = [id \in created |-> Team(id, "The Gophers")]]
    /\ pg = PgNew
    /\ ret = Ret("New", NoVal, NoVal, NoVal)
    /\ calls = 0
    /\ mu = [writer |-> NoProc, readers |-> {}]
    /\ pc = [p \in Procs |-> 0]
    /\ frame = [p \in Procs |-> NoFrame]
    /\ authLog = [email \in Emails |-> [calls |-> 0, passwords |-> {}, creates |-> 0]]
    /\ joined = [teamID \in TeamIDs |-> {}]
    /\ now = 0
    /\ issued = {}
    /\ heap = HeapNew
    /\ run = RunNew

NextJoin ==
    \E p \in Procs :
        \/ frame[p] = NoFrame /\ Invoke(p, {"AddTeamMember"})
        \/ Lock(p)
        \/ AddTeamMemberChecks(p)
        \/ AddTeamMemberInsert(p)
        \/ AddTeamMemberReplace(p)

SpecJoin == InitJoin /\ [][NextJoin]_vars

(***************************************************************************)
(* SpecAPI: clients send requests to the routes of initEcho while time     *)
(* passes. Every request is served from both stores, as Spec applies every *)
(* Store call to both.                                                     *)
(***************************************************************************)
\* The key of somebody who does not know config.JWTSecret.
ForgedSecret == "guess"

\* What a client may send as Authorization: nothing, no JWT, a token it was
\* issued, or a token it made for itself and signed with its own key.
Authorizations ==
    {NoAuthorization, Malformed}
        \cup {Bearer(jwt) : jwt \in issued}
        \cup {Bearer(SignedString([email |-> EmailPool[1], exp |-> now + tokenExpiration],
                                  ForgedSecret))}

\* A request: its Authorization header, its path parameters and its body,
\* and the time at which it is served.
Request(auth, id, email, body) ==
    [auth |-> auth, id |-> id, email |-> email, body |-> body, at |-> now]

\* What a served request leaves in ret for one store.
Served(h) == [called |-> h.called, resp |-> h.resp]

\* The tokens a response hands out.
TokensOf(h) ==
    IF h.resp.err = Nil /\ h.called # << >> /\ h.called[1].op = "AuthenticateOrCreateVolunteerAccount"
    THEN {h.resp.body.token}
    ELSE {}

\* One request was served, while the behaviour's budget lasts.
Serve(route, req, m, p) ==
    /\ calls < MaxRequests
    /\ calls' = calls + 1
    /\ ret' = Ret(route, req, Served(m), Served(p))
    /\ joined' = IF m.called = << >> THEN joined
                 ELSE Joined(m.called[1].op, <<req.id, req.email>>, m.called[1])
    /\ issued' = issued \cup TokensOf(m) \cup TokensOf(p)
    /\ UNCHANGED <<mu, pc, frame, authLog, now, heap, run>>

ServePostLogin ==
    \E email \in Emails \cup {""}, password \in Passwords \cup {""}, n \in Salts :
        LET volunteer == Volunteer(email, password)
            m == RoutePostLogin("memorystore", mem, volunteer, n, now)
            p == RoutePostLogin("postgrestore", pg, volunteer, n, now)
        IN  /\ mem' = m.store
            /\ pg' = p.store
            /\ Serve("POST /v1/volunteers/login", Request(NoAuthorization, "", "", volunteer), m, p)

ServeGetMe ==
    \E auth \in Authorizations :
        LET m == RouteGetMe("memorystore", mem, auth, now)
            p == RouteGetMe("postgrestore", pg, auth, now)
        IN  /\ mem' = m.store
            /\ pg' = p.store
            /\ Serve("GET /v1/volunteers/me", Request(auth, "", "", NoBody), m, p)

ServePostTeam ==
    \E auth \in Authorizations, id \in TeamIDs \cup {""}, name \in Names :
        LET team == Team(id, name)
            m == RoutePostTeam("memorystore", mem, auth, now, team)
            p == RoutePostTeam("postgrestore", pg, auth, now, team)
        IN  /\ mem' = m.store
            /\ pg' = p.store
            /\ Serve("POST /v1/teams", Request(auth, "", "", team), m, p)

ServeGetTeamByID ==
    \E auth \in Authorizations, teamID \in TeamIDs :
        LET m == RouteGetTeamByID("memorystore", mem, auth, now, teamID)
            p == RouteGetTeamByID("postgrestore", pg, auth, now, teamID)
        IN  /\ mem' = m.store
            /\ pg' = p.store
            /\ Serve("GET /v1/teams/:id", Request(auth, teamID, "", NoBody), m, p)

ServeGetTeamMembers ==
    \E auth \in Authorizations, teamID \in TeamIDs :
        \E mo \in Orders(MemEmailSet(mem, teamID)), po \in Orders(PgJoinedEmails(pg, teamID)) :
            LET m == RouteGetTeamMembers("memorystore", mem, auth, now, teamID, mo)
                p == RouteGetTeamMembers("postgrestore", pg, auth, now, teamID, po)
            IN  /\ mem' = m.store
                /\ pg' = p.store
                /\ Serve("GET /v1/teams/:id/members", Request(auth, teamID, "", NoBody), m, p)

ServePutTeamMember ==
    \E auth \in Authorizations, teamID \in TeamIDs, email \in Emails :
        LET m == RoutePutTeamMember("memorystore", mem, auth, now, teamID, email)
            p == RoutePutTeamMember("postgrestore", pg, auth, now, teamID, email)
        IN  /\ mem' = m.store
            /\ pg' = p.store
            /\ Serve("PUT /v1/teams/:id/members/:email", Request(auth, teamID, email, NoBody), m, p)

ServeDeleteTeamMember ==
    \E auth \in Authorizations, teamID \in TeamIDs, email \in Emails :
        LET m == RouteDeleteTeamMember("memorystore", mem, auth, now, teamID, email)
            p == RouteDeleteTeamMember("postgrestore", pg, auth, now, teamID, email)
        IN  /\ mem' = m.store
            /\ pg' = p.store
            /\ Serve("DELETE /v1/teams/:id/members/:email", Request(auth, teamID, email, NoBody), m, p)

\* A second passes; the steps of the clock are taken from the same budget.
Tick ==
    /\ calls < MaxRequests
    /\ calls' = calls + 1
    /\ now' = now + 1
    /\ UNCHANGED <<mem, pg, ret, mu, pc, frame, authLog, joined, issued, heap, run>>

NextAPI ==
    \/ ServePostLogin
    \/ ServeGetMe
    \/ ServePostTeam
    \/ ServeGetTeamByID
    \/ ServeGetTeamMembers
    \/ ServePutTeamMember
    \/ ServeDeleteTeamMember
    \/ Tick

SpecAPI == Init /\ [][NextAPI]_vars

(***************************************************************************)
(* SpecSession: clients log in and present their tokens while time passes. *)
(***************************************************************************)
NextSession ==
    \/ ServePostLogin
    \/ ServeGetMe
    \/ Tick

SpecSession == Init /\ [][NextSession]_vars

(***************************************************************************)
(* SpecCtx: the single caller passes a context to every Store operation,   *)
(* one that is live or one whose Done channel is already closed.           *)
(***************************************************************************)
Background == "context.Background()"
Canceled == "a context that was cancelled"
Contexts == {Background, Canceled}

\* ctx.Err() of a cancelled context, and the same wrapped by queryError.
ErrCanceled == "context canceled"
ErrQueryCanceled == "failed to execute database query: context canceled"

\* No method of memorystore.Store reads its ctx parameter: the call does
\* with a cancelled context what it does with any other.
MemWithContext(ctx, r) == r

\* database/sql looks at ctx.Done() before it sends a statement: with a
\* cancelled context GetContext, ExecContext, SelectContext and QueryContext
\* return ctx.Err() and the database is not touched; queryError wraps it.
\* zero is what the method returns next to an error.
PgWithContext(ctx, db, r, zero) ==
    IF ctx = Canceled THEN Result(db, ErrQueryCanceled, zero) ELSE r

\* s.db.PingContext(ctx), whose error RunHealthcheck returns as it is.
PgPingContext(ctx, db, r) ==
    IF ctx = Canceled THEN Result(db, ErrCanceled, NoVal) ELSE r

\* The single caller made one more call, with the context ctx.
CalledWithContext(ctx, op, arg, m, p) ==
    /\ calls < MaxCalls
    /\ calls' = calls + 1
    /\ ret' = [op |-> op, arg |-> arg, ctx |-> ctx, mem |-> Outcome(m), pg |-> Outcome(p)]
    /\ joined' = Joined(op, arg, Outcome(m))
    /\ UNCHANGED <<mu, pc, frame, authLog, now, issued, heap, run>>

AuthenticateOrCreateVolunteerAccountContext ==
    \E ctx \in Contexts, email \in Emails, password \in Passwords, n \in Salts :
        LET volunteer == Volunteer(email, password)
            m == MemWithContext(ctx, MemAuthenticateOrCreateVolunteerAccount(mem, volunteer))
            p == PgWithContext(ctx, pg, PgAuthenticateOrCreateVolunteerAccount(pg, volunteer, n), NoVal)
        IN  /\ mem' = m.store
            /\ pg' = p.store
            /\ CalledWithContext(ctx, "AuthenticateOrCreateVolunteerAccount", volunteer, m, p)

GetVolunteerByEmailContext ==
    \E ctx \in Contexts, email \in Emails :
        LET m == MemWithContext(ctx, MemGetVolunteerByEmail(mem, email))
            p == PgWithContext(ctx, pg, PgGetVolunteerByEmail(pg, email), NoVal)
        IN  /\ mem' = m.store
            /\ pg' = p.store
            /\ CalledWithContext(ctx, "GetVolunteerByEmail", email, m, p)

CreateTeamContext ==
    \E ctx \in Contexts, id \in TeamIDs, name \in Names :
        LET m == MemWithContext(ctx, MemCreateTeam(mem, Team(id, name)))
            p == PgWithContext(ctx, pg, PgCreateTeam(pg, Team(id, name)), NoVal)
        IN  /\ mem' = m.store
            /\ pg' = p.store
            /\ CalledWithContext(ctx, "CreateTeam", Team(id, name), m, p)

GetTeamByIDContext ==
    \E ctx \in Contexts, teamID \in TeamIDs :
        LET m == MemWithContext(ctx, MemGetTeamByID(mem, teamID))
            p == PgWithContext(ctx, pg, PgGetTeamByID(pg, teamID), NoVal)
        IN  /\ mem' = m.store
            /\ pg' = p.store
            /\ CalledWithContext(ctx, "GetTeamByID", teamID, m, p)

AddTeamMemberContext ==
    \E ctx \in Contexts, teamID \in TeamIDs, email \in Emails :
        LET m == MemWithContext(ctx, MemAddTeamMember(mem, teamID, email))
            p == PgWithContext(ctx, pg, PgAddTeamMember(pg, teamID, email), NoVal)
        IN  /\ mem' = m.store
            /\ pg' = p.store
            /\ CalledWithContext(ctx, "AddTeamMember", <<teamID, email>>, m, p)

ListTeamMembersContext ==
    \E ctx \in Contexts, teamID \in TeamIDs :
        \E mo \in Orders(MemEmailSet(mem, teamID)), po \in Orders(PgJoinedEmails(pg, teamID)) :
            LET m == MemWithContext(ctx, MemListTeamMembers(mem, teamID, mo))
                p == PgWithContext(ctx, pg, PgListTeamMembers(pg, teamID, po), NilSlice)
            IN  /\ mem' = m.store
                /\ pg' = p.store
                /\ CalledWithContext(ctx, "ListTeamMembers", teamID, m, p)

RemoveTeamMemberContext ==
    \E ctx \in Contexts, teamID \in TeamIDs, email \in Emails :
        LET m == MemWithContext(ctx, MemRemoveTeamMember(mem, teamID, email))
            p == PgWithContext(ctx, pg, PgRemoveTeamMember(pg, teamID, email), NoVal)
        IN  /\ mem' = m.store
            /\ pg' = p.store
            /\ CalledWithContext(ctx, "RemoveTeamMember", <<teamID, email>>, m, p)

CountTeamMembersContext ==
    \E ctx \in Contexts :
        LET m == MemWithContext(ctx, MemCountTeamMembers(mem))
            p == PgWithContext(ctx, pg, PgCountTeamMembers(pg), NoVal)
        IN  /\ mem' = m.store
            /\ pg' = p.store
            /\ CalledWithContext(ctx, "CountTeamMembers", NoVal, m, p)

RunHealthcheckContext ==
    \E ctx \in Contexts :
        LET m == MemWithContext(ctx, MemRunHealthcheck(mem))
            p == PgPingContext(ctx, pg, PgRunHealthcheck(pg))
        IN  /\ mem' = m.store
            /\ pg' = p.store
            /\ CalledWithContext(ctx, "RunHealthcheck", NoVal, m, p)

NextCtx ==
    \/ AuthenticateOrCreateVolunteerAccountContext
    \/ GetVolunteerByEmailContext
    \/ CreateTeamContext
    \/ GetTeamByIDContext
    \/ AddTeamMemberContext
    \/ ListTeamMembersContext
    \/ RemoveTeamMemberContext
    \/ CountTeamMembersContext
    \/ RunHealthcheckContext

SpecCtx == Init /\ [][NextCtx]_vars

(***************************************************************************)
(* SpecAlias: the single caller of the in-memory store keeps the pointers  *)
(* it passes to the store and the pointers the store returns, and writes   *)
(* to the exported fields of what they point to.                           *)
(***************************************************************************)
\* A pointer the caller holds after a call: the address, and whether it is
\* the argument of the call or its result.
Ref(ptr, from) == [ptr |-> ptr, from |-> from]
Held == IF "held" \in DOMAIN ret THEN ret.held ELSE {}

\* The values a caller may write to a field.
Values(field) ==
    CASE field = "Email" -> Emails
      [] field = "Password" -> Passwords
      [] field = "ID" -> TeamIDs
      [] field = "Name" -> Names

\* The single caller made one more call: the result and the pointers the
\* call leaves in the caller's hands are recorded.
CalledByRef(op, arg, r, held) ==
    /\ calls < MaxCalls
    /\ calls' = calls + 1
    /\ ret' = [op |-> op, arg |-> arg, mem |-> Outcome(r), pg |-> NoVal, held |-> held]
    /\ UNCHANGED <<mem, pg, mu, pc, frame, authLog, joined, now, issued, run>>

\* The pointers the caller holds after a call that returned r: the pointer
\* it passed, the pointer or the slice elements it got back.
Argument(ptr) == {Ref(ptr, "argument")}
Returned(r) == IF r.err # Nil THEN {} ELSE {Ref(r.val, "result")}
ReturnedSlice(r) ==
    IF r.err # Nil THEN {} ELSE {Ref(r.val.items[i], "result") : i \in 1..Len(r.val.items)}
Ptrs(held) == {ref.ptr : ref \in held}

\* The caller logs in with one password and gives its teams one name: other
\* passwords and names get into the objects by the caller's writes.
AuthenticateOrCreateVolunteerAccountRef ==
    \E email \in Emails :
        LET volunteer == NewAddr(heap)
            r == HeapAuthenticateOrCreateVolunteerAccount(
                     Alloc(heap, Volunteer(email, "secret")), volunteer)
        IN  /\ heap' = Collect(r.store, Ptrs(Argument(volunteer)))
            /\ CalledByRef("AuthenticateOrCreateVolunteerAccount", volunteer, r,
                           Argument(volunteer))

GetVolunteerByEmailRef ==
    \E email \in Emails :
        LET r == HeapGetVolunteerByEmail(heap, email)
        IN  /\ heap' = Collect(r.store, Ptrs(Returned(r)))
            /\ CalledByRef("GetVolunteerByEmail", email, r, Returned(r))

CreateTeamRef ==
    \E id \in TeamIDs :
        LET team == NewAddr(heap)
            r == HeapCreateTeam(Alloc(heap, Team(id, "The Gophers")), team)
        IN  /\ heap' = Collect(r.store, Ptrs(Argument(team)))
            /\ CalledByRef("CreateTeam", team, r, Argument(team))

GetTeamByIDRef ==
    \E teamID \in TeamIDs :
        LET r == HeapGetTeamByID(heap, teamID)
        IN  /\ heap' = Collect(r.store, Ptrs(Returned(r)))
            /\ CalledByRef("GetTeamByID", teamID, r, Returned(r))

AddTeamMemberRef ==
    \E teamID \in TeamIDs, email \in Emails :
        LET r == HeapAddTeamMember(heap, teamID, email)
        IN  /\ heap' = Collect(r.store, {})
            /\ CalledByRef("AddTeamMember", <<teamID, email>>, r, {})

ListTeamMembersRef ==
    \E teamID \in TeamIDs :
        \E order \in Orders(MemEmailSet(HeapView(heap), teamID)) :
            LET r == HeapListTeamMembers(heap, teamID, order)
            IN  /\ heap' = Collect(r.store, Ptrs(ReturnedSlice(r)))
                /\ CalledByRef("ListTeamMembers", teamID, r, ReturnedSlice(r))

\* The caller assigns to a field through one of the pointers its last call
\* left it: volunteer.Email = ..., team.Name = ..., volunteers[i].Email = ...
Mutate ==
    \E ref \in Held :
        \E field \in DOMAIN heap.objects[ref.ptr] :
            \E value \in Values(field) \ {heap.objects[ref.ptr][field]} :
                /\ calls < MaxCalls
                /\ calls' = calls + 1
                /\ heap' = Collect([heap EXCEPT !.objects[ref.ptr][field] = value], {ref.ptr})
                /\ ret' = [op |-> "Mutate",
                           arg |-> [ptr |-> ref.ptr, of |-> ret.op, from |-> ref.from,
                                    field |-> field, value |-> value],
                           mem |-> [err |-> Nil, val |-> NoVal], pg |-> NoVal, held |-> {ref}]
                /\ UNCHANGED <<mem, pg, mu, pc, frame, authLog, joined, now, issued, run>>

NextAlias ==
    \/ AuthenticateOrCreateVolunteerAccountRef
    \/ GetVolunteerByEmailRef
    \/ CreateTeamRef
    \/ GetTeamByIDRef
    \/ AddTeamMemberRef
    \/ ListTeamMembersRef
    \/ Mutate

SpecAlias == Init /\ [][NextAlias]_vars

(***************************************************************************)
(* SpecServe: runServerUntilInterrupted runs while clients connect and the *)
(* process is sent signals.                                                *)
(***************************************************************************)
\* The process runs, and the stores are not involved.
Alive ==
    /\ ~run.killed
    /\ UNCHANGED <<calls, pc, mem, pg, ret, mu, frame, authLog, joined, now, issued, heap>>

\* Lines 277-291: the channels are made, the signals are routed to sigCh and
\* the goroutine is started.
Start ==
    /\ run.main = 277
    /\ run' = [run EXCEPT !.main = 294, !.handler = 283, !.notified = TRUE]
    /\ Alive

\* The process is sent SIGINT or SIGTERM. While the signals are routed to
\* sigCh the signal is put into it, or dropped when it is full (capacity 1);
\* otherwise the default disposition ends the process.
Signal ==
    \E sig \in Signals :
        /\ run.signals < MaxSignals
        /\ run' = [run EXCEPT
                      !.signals = @ + 1,
                      !.sigCh = IF run.notified /\ Len(@) < 1 THEN Append(@, sig) ELSE @,
                      !.killed = ~run.notified]
        /\ Alive

\* sig := <-sigCh
Receive ==
    /\ run.handler = 283
    /\ run.sigCh # << >>
    /\ run' = [run EXCEPT !.sig = Head(run.sigCh), !.sigCh = Tail(@), !.handler = 286]
    /\ Alive

\* signal.Stop(sigCh)
Stop ==
    /\ run.handler = 286
    /\ run' = [run EXCEPT !.notified = FALSE, !.handler = 288]
    /\ Alive

\* server.Shutdown(context.Background()) is entered: the server is marked as
\* shutting down and its listener is closed.
ShutdownCloses ==
    /\ run.handler = 288
    /\ ~run.inShutdown
    /\ run' = [run EXCEPT !.inShutdown = TRUE,
                          !.listener = IF @ = "open" THEN "closed" ELSE @]
    /\ Alive

\* Shutdown returns once no connection is serving a request; its context is
\* never done.
ShutdownReturns ==
    /\ run.handler = 288
    /\ run.inShutdown
    /\ run.conns = 0
    /\ run' = [run EXCEPT !.handler = 290]
    /\ Alive

\* close(termAckCh), and the goroutine ends.
CloseTermAck ==
    /\ run.handler = 290
    /\ run' = [run EXCEPT !.termAckCh = "closed", !.handler = 291]
    /\ Alive

\* server.ListenAndServe() listens on the address and starts to accept.
ListenAndServe ==
    /\ run.main = 294
    /\ run.listener = "none"
    /\ ~run.inShutdown
    /\ run' = [run EXCEPT !.listener = "open"]
    /\ Alive

\* ListenAndServe ends because the address cannot be listened on or because
\* Accept fails: line 294 takes the error, which is not ErrServerClosed.
ListenAndServeFails ==
    /\ run.main = 294
    /\ run.listener \in {"none", "open"}
    /\ ~run.inShutdown
    /\ run' = [run EXCEPT
                  !.err = IF run.listener = "none" THEN ServerErrors.listen
                          ELSE ServerErrors.accept,
                  !.listener = IF @ = "open" THEN "closed" ELSE @,
                  !.main = 295]
    /\ Alive

\* ListenAndServe ends with ErrServerClosed, as it does once Shutdown was
\* called: line 294 goes on to line 299.
ListenAndServeClosed ==
    /\ run.main = 294
    /\ run.inShutdown
    /\ run' = [run EXCEPT !.err = ErrServerClosed, !.main = 299]
    /\ Alive

\* return errors.Wrap(err, "HTTP server crashed")
ReturnCrashed ==
    /\ run.main = 295
    /\ run' = [run EXCEPT !.returned = Wrap(run.err, "HTTP server crashed"), !.main = 0]
    /\ Alive

\* A receive from a channel nobody sends on, in place of line 299's: it
\* never waits (a receive from a nil or closed channel variable).
ReceiveTermAckAtOnce ==
    /\ run.main = 299
    /\ run' = [run EXCEPT !.returned = Nil, !.main = 0]
    /\ Alive

\* <-termAckCh; return nil
ReceiveTermAck ==
    /\ run.main = 299
    /\ run.termAckCh = "closed"
    /\ run' = [run EXCEPT !.returned = Nil, !.main = 0]
    /\ Alive

\* The server accepts a connection and serves its request in a goroutine.
Accept ==
    /\ run.listener = "open"
    /\ run.conns < MaxConns
    /\ run' = [run EXCEPT !.conns = @ + 1]
    /\ Alive

\* A request is answered and its connection closed.
Finish ==
    /\ run.conns > 0
    /\ run' = [run EXCEPT !.conns = @ - 1]
    /\ Alive

NextServe ==
    \/ Start
    \/ Signal
    \/ Receive
    \/ Stop
    \/ ShutdownCloses
    \/ ShutdownReturns
    \/ CloseTermAck
    \/ ListenAndServe
    \/ ListenAndServeFails
    \/ ListenAndServeClosed
    \/ ReturnCrashed
    \/ ReceiveTermAck
    \/ Accept
    \/ Finish

SpecServe == Init /\ [][NextServe]_vars

(***************************************************************************)
(* Properties.                                                             *)
(***************************************************************************)
Auth == "AuthenticateOrCreateVolunteerAccount"

\* The emails of a returned slice of volunteers.
EmailsOf(slice) == {slice.items[i].Email : i \in 1..Len(slice.items)}

\* C1: in the in-memory store, for every existing team, ListTeamMembers
\* returns exactly the volunteers whose AddTeamMember succeeded with no
\* successful RemoveTeamMember since (so both of two members added in turn).
C1_ListReturnsJoined ==
    \A teamID \in DOMAIN mem.teams :
        \A order \in Orders(MemEmailSet(mem, teamID)) :
            LET r == MemListTeamMembers(mem, teamID, order)
            IN  r.err = Nil /\ EmailsOf(r.val) = joined[teamID]

\* C2: AuthenticateOrCreateVolunteerAccount on the in-memory store: an unknown
\* email is stored with the given password and the call succeeds; a known
\* email succeeds exactly when the stored password equals the given one, and
\* otherwise the call returns ErrPasswordMismatch and leaves the store as it was.
C2_AuthenticateOrCreate ==
    [][ret'.op = Auth =>
        LET volunteer == ret'.arg
        IN  IF ~Has(mem.volunteers, volunteer.Email)
            THEN /\ ret'.mem.err = Nil
                 /\ mem' = [mem EXCEPT !.volunteers = Put(@, volunteer.Email, volunteer)]
            ELSE /\ ret'.mem.err = Nil <=>
                        mem.volunteers[volunteer.Email].Password = volunteer.Password
                 /\ ret'.mem.err \in {Nil, ErrPasswordMismatch}
                 /\ ret'.mem.err = ErrPasswordMismatch => mem' = mem]_vars

C2_Witness ==
    /\ ret.op = Auth
    /\ ret.mem.err = ErrPasswordMismatch

\* C3: the password of a volunteer is write-once in both stores: a stored
\* account keeps its password over every step, and an account appears only
\* by an AuthenticateOrCreateVolunteerAccount call for its email, holding
\* the password of that call (in the relational store, its salted hash).
C3_PasswordWriteOnce ==
    [][/\ \A email \in DOMAIN mem.volunteers :
            /\ Has(mem'.volunteers, email)
            /\ mem'.volunteers[email].Password = mem.volunteers[email].Password
       /\ \A email \in DOMAIN pg.volunteers :
            /\ Has(pg'.volunteers, email)
            /\ pg'.volunteers[email] = pg.volunteers[email]
       /\ \A email \in DOMAIN mem'.volunteers \ DOMAIN mem.volunteers :
            /\ ret'.op = Auth
            /\ ret'.arg.Email = email
            /\ mem'.volunteers[email].Password = ret'.arg.Password
       /\ \A email \in DOMAIN pg'.volunteers \ DOMAIN pg.volunteers :
            /\ ret'.op = Auth
            /\ ret'.arg.Email = email
            /\ pg'.volunteers[email] = Crypt(ret'.arg.Password, pg'.volunteers[email])]_vars

C3_Witness ==
    /\ ret.op = Auth
    /\ Has(mem.volunteers, ret.arg.Email)
    /\ Has(pg.volunteers, ret.arg.Email)
    /\ mem.volunteers[ret.arg.Email].Password # ret.arg.Password
    /\ pg.volunteers[ret.arg.Email] # Crypt(ret.arg.Password, pg.volunteers[ret.arg.Email])

\* The goroutines whose current call is a login with the given email.
Callers(email) ==
    {p \in Procs : frame[p].op = Auth /\ frame[p].arg.Email = email}

\* C4: when every login made with an email carries the same password, then
\* under every interleaving at most one call creates the volunteer, every
\* call that has returned succeeded (and then exactly one created it), and
\* the stored volunteer is the one with that email and password.
C4_SamePasswordLogins ==
    \A email \in Emails :
        \A password \in Passwords :
            authLog[email].passwords = {password} =>
                /\ authLog[email].creates <= 1
                /\ \A p \in Callers(email) :
                        frame[p].done => frame[p].err = Nil /\ authLog[email].creates = 1
                /\ Has(mem.volunteers, email) =>
                        /\ mem.volunteers[email] = Volunteer(email, password)
                        /\ authLog[email].creates = 1

\* Every goroutine logged in with one never-seen email and one password,
\* all of them before the account existed, and all have returned.
C4_Witness ==
    \E email \in Emails, password \in Passwords :
        /\ authLog[email].calls = NumProcs
        /\ \A p \in Procs :
              /\ frame[p].op = Auth
              /\ frame[p].arg = Volunteer(email, password)
              /\ frame[p].unseen
              /\ frame[p].done

\* C5: when the logins made with a never-seen email carry pairwise different
\* passwords, then under every interleaving exactly one of them succeeds, the
\* one that created the volunteer, and every other one returns
\* ErrPasswordMismatch; no two callers both create the same email.
C5_DifferentPasswordLogins ==
    \A email \in Emails :
        LET A == Callers(email)
        IN  /\ Cardinality({p \in A : frame[p].created}) <= 1
            /\ authLog[email].creates <= 1
            /\ (/\ A # {}
                /\ authLog[email].calls = Cardinality(A)
                /\ \A p \in A : frame[p].done /\ frame[p].unseen
                /\ \A p, q \in A : p # q => frame[p].arg.Password # frame[q].arg.Password)
               => \E p \in A :
                     /\ frame[p].err = Nil
                     /\ frame[p].created
                     /\ \A q \in A \ {p} :
                           frame[q].err = ErrPasswordMismatch /\ ~frame[q].created

C5_Witness ==
    \E email \in Emails :
        \E p, q \in Callers(email) :
            /\ p # q
            /\ authLog[email].calls = Cardinality(Callers(email))
            /\ frame[p].arg.Password # frame[q].arg.Password
            /\ frame[p].unseen /\ frame[q].unseen
            /\ frame[p].done /\ frame[q].done

\* The lines of store.go at which a goroutine is about to write the maps or
\* is inside a mutating operation, and those at which it is about to read them.
WriterLines == {31, 32, 60, 61, 83, 98, 100, 133, 146}
ReaderLines == {46, 71, 111, 151, 152}

\* No goroutine is about to read the maps while another one is between
\* the writes of AddTeamMember or before the delete of RemoveTeamMember.
NoReadDuringMutation ==
    \A p, q \in Procs :
        ~(pc[p] \in ReaderLines /\ pc[q] \in {98, 100, 146})

\* C6: every in-memory operation accesses the maps only while it holds the
\* lock, the mutating ones exclusively and the reading ones (CountTeamMembers
\* among them) shared, so that no operation reads teamMembers while
\* AddTeamMember or RemoveTeamMember is in the middle of mutating it.
C6_MapsAccessedUnderLock ==
    /\ \A p \in Procs :
          /\ pc[p] \in WriterLines => mu.writer = p
          /\ pc[p] \in ReaderLines => p \in mu.readers
    /\ NoReadDuringMutation

\* C7: every membership refers to an existing team and an existing volunteer,
\* in the in-memory store and in the relational one, so that ListTeamMembers
\* never dereferences a missing volunteer.
C7_MembershipsReferToExisting ==
    /\ \A teamID \in DOMAIN mem.teamMembers :
          /\ Has(mem.teams, teamID)
          /\ mem.teamMembers[teamID] \subseteq DOMAIN mem.volunteers
    /\ \A row \in pg.team_members :
          Has(pg.teams, row[1]) /\ Has(pg.volunteers, row[2])
    /\ \A teamID \in TeamIDs :
          MemListTeamMembers(mem, teamID, << >>).err # Panic
    /\ ret.op = "ListTeamMembers" => ret.mem.err # Panic

C7_Witness ==
    /\ ret.op = "ListTeamMembers"
    /\ ret.mem.err = Nil
    /\ ret.mem.val.items # << >>
    /\ ret.pg.val.items # << >>

\* C8: CountTeamMembers returns an entry only for teams that have at least
\* one member: a team with no member is absent from the mapping, never
\* present with count 0, also after its only member was removed.
C8_CountOmitsEmptyTeams ==
    ret.op = "CountTeamMembers" =>
        /\ \A teamID \in DOMAIN ret.mem.val : ret.mem.val[teamID] >= 1
        /\ \A teamID \in DOMAIN ret.pg.val : ret.pg.val[teamID] >= 1

\* C9: no read path returns a password: the Volunteer of GetVolunteerByEmail
\* and every Volunteer of ListTeamMembers has an empty Password, in both
\* stores, and GetMe for a token bound to a stored email answers with that
\* volunteer, without a password.
C9_NoPasswordReturned ==
    /\ (ret.op = "GetVolunteerByEmail" /\ ret.mem.err = Nil) =>
          ret.mem.val = Volunteer(ret.arg, "")
    /\ (ret.op = "GetVolunteerByEmail" /\ ret.pg.err = Nil) =>
          ret.pg.val = Volunteer(ret.arg, "")
    /\ ret.op = "ListTeamMembers" =>
          /\ \A i \in 1..Len(ret.mem.val.items) : ret.mem.val.items[i].Password = ""
          /\ \A i \in 1..Len(ret.pg.val.items) : ret.pg.val.items[i].Password = ""
    /\ (ret.op = "GetMe" /\ GetEmailFromJWTToken(ret.arg).ok) =>
          LET email == GetEmailFromJWTToken(ret.arg).email
          IN  /\ Has(mem.volunteers, email) =>
                    ret.mem = Response(Nil, StatusOK, [email |-> email])
              /\ Has(pg.volunteers, email) =>
                    ret.pg = Response(Nil, StatusOK, [email |-> email])

C9_Witness ==
    /\ ret.op = "GetMe"
    /\ ret.mem.code = StatusOK
    /\ ret.pg.code = StatusOK
    /\ mem.volunteers[ret.mem.body.email].Password # ""

\* C10: ListTeamMembers fails with ErrNotFound whenever the team does not
\* exist, in the in-memory store and in the relational store.
C10_ListUnknownTeamNotFound ==
    ret.op = "ListTeamMembers" =>
        /\ ~Has(mem.teams, ret.arg) => ret.mem.err = ErrNotFound
        /\ ~Has(pg.teams, ret.arg) => ret.pg.err = ErrNotFound

\* The positions at which an email occurs in a returned slice of volunteers.
Occurrences(slice, email) ==
    {i \in 1..Len(slice.items) : slice.items[i].Email = email}

\* C11: after a successful AddTeamMember(t, e), in either store, every
\* ListTeamMembers(t) succeeds and holds e exactly once, with an empty
\* password, and AddTeamMember(t, e) made next returns ErrAlreadyExists and
\* leaves the store as it is.
C11_AddedMemberListedOnce ==
    ret.op = "AddTeamMember" =>
        LET teamID == ret.arg[1]
            email == ret.arg[2]
        IN  /\ ret.mem.err = Nil =>
                /\ \A order \in Orders(MemEmailSet(mem, teamID)) :
                      LET r == MemListTeamMembers(mem, teamID, order)
                      IN  /\ r.err = Nil
                          /\ Cardinality(Occurrences(r.val, email)) = 1
                          /\ \A i \in Occurrences(r.val, email) :
                                r.val.items[i] = Volunteer(email, "")
                /\ MemAddTeamMember(mem, teamID, email) = Result(mem, ErrAlreadyExists, NoVal)
            /\ ret.pg.err = Nil =>
                /\ \A order \in Orders(PgJoinedEmails(pg, teamID)) :
                      LET r == PgListTeamMembers(pg, teamID, order)
                      IN  /\ r.err = Nil
                          /\ Cardinality(Occurrences(r.val, email)) = 1
                          /\ \A i \in Occurrences(r.val, email) :
                                r.val.items[i] = Volunteer(email, "")
                /\ PgAddTeamMember(pg, teamID, email) = Result(pg, ErrAlreadyExists, NoVal)

\* A volunteer with a stored password joined a team in both stores.
C11_Witness ==
    /\ ret.op = "AddTeamMember"
    /\ ret.mem.err = Nil
    /\ ret.pg.err = Nil
    /\ mem.volunteers[ret.arg[2]].Password # ""

\* C12: RemoveTeamMember(t, e) for an e that joined t and has not left it
\* succeeds, and a ListTeamMembers(t) made after it does not hold e;
\* RemoveTeamMember returns ErrNotFound and leaves the store as it is when the
\* team does not exist or e is not a member of it. In both stores.
C12_RemoveTeamMember ==
    \A teamID \in TeamIDs, email \in Emails :
        LET m == MemRemoveTeamMember(mem, teamID, email)
            p == PgRemoveTeamMember(pg, teamID, email)
        IN  /\ email \in joined[teamID] =>
                /\ m.err = Nil
                /\ \A order \in Orders(MemEmailSet(m.store, teamID)) :
                      email \notin EmailsOf(MemListTeamMembers(m.store, teamID, order).val)
            /\ (~Has(mem.teams, teamID) \/ email \notin MemEmailSet(mem, teamID)) =>
                m = Result(mem, ErrNotFound, NoVal)
            /\ <<teamID, email>> \in pg.team_members =>
                /\ p.err = Nil
                /\ \A order \in Orders(PgJoinedEmails(p.store, teamID)) :
                      email \notin EmailsOf(PgListTeamMembers(p.store, teamID, order).val)
            /\ (~Has(pg.teams, teamID) \/ <<teamID, email>> \notin pg.team_members) =>
                p = Result(pg, ErrNotFound, NoVal)

\* C13: CreateTeam with an unused id succeeds and GetTeamByID then returns
\* the team as given; CreateTeam with a used id returns ErrAlreadyExists and
\* GetTeamByID still returns the team of the first call; no step of any
\* operation changes a stored team. In both stores.
C13_CreateTeamOnce ==
    [][/\ ret'.op = "CreateTeam" =>
            LET team == ret'.arg
            IN  /\ IF Has(mem.teams, team.ID)
                   THEN /\ ret'.mem.err = ErrAlreadyExists
                        /\ MemGetTeamByID(mem', team.ID) = MemGetTeamByID(mem, team.ID)
                   ELSE /\ ret'.mem.err = Nil
                        /\ MemGetTeamByID(mem', team.ID) = Result(mem', Nil, team)
                /\ IF Has(pg.teams, team.ID)
                   THEN /\ ret'.pg.err = ErrAlreadyExists
                        /\ PgGetTeamByID(pg', team.ID) = PgGetTeamByID(pg, team.ID)
                   ELSE /\ ret'.pg.err = Nil
                        /\ PgGetTeamByID(pg', team.ID) = Result(pg', Nil, team)
       /\ \A id \in DOMAIN mem.teams : Has(mem'.teams, id) /\ mem'.teams[id] = mem.teams[id]
       /\ \A id \in DOMAIN pg.teams : Has(pg'.teams, id) /\ pg'.teams[id] = pg.teams[id]]_vars

\* A second CreateTeam of an id, under another name, was turned down.
C13_Witness ==
    /\ ret.op = "CreateTeam"
    /\ ret.mem.err = ErrAlreadyExists
    /\ ret.pg.err = ErrAlreadyExists
    /\ mem.teams[ret.arg.ID].Name # ret.arg.Name
    /\ pg.teams[ret.arg.ID] # ret.arg.Name

\* C14: AddTeamMember(t, e) for a team that does not exist returns
\* ErrNotFound and leaves the store as it is, for an e that is a volunteer
\* and for one that is not. In both stores.
C14_AddToUnknownTeam ==
    /\ \A teamID \in TeamIDs, email \in Emails :
          /\ ~Has(mem.teams, teamID) =>
                MemAddTeamMember(mem, teamID, email) = Result(mem, ErrNotFound, NoVal)
          /\ ~Has(pg.teams, teamID) =>
                PgAddTeamMember(pg, teamID, email) = Result(pg, ErrNotFound, NoVal)
    /\ ret.op = "AddTeamMember" =>
          /\ ~Has(mem.teams, ret.arg[1]) => ret.mem.err = ErrNotFound
          /\ ~Has(pg.teams, ret.arg[1]) => ret.pg.err = ErrNotFound

\* An existing volunteer asked to join a team that does not exist.
C14_Witness ==
    /\ ret.op = "AddTeamMember"
    /\ ~Has(mem.teams, ret.arg[1]) /\ ~Has(pg.teams, ret.arg[1])
    /\ Has(mem.volunteers, ret.arg[2]) /\ Has(pg.volunteers, ret.arg[2])
    /\ ret.mem.err = ErrNotFound /\ ret.pg.err = ErrNotFound

\* C15: AddTeamMember(t, e) for an e that is no volunteer returns ErrNotFound
\* and leaves the store as it is, whether or not the team has a member set.
\* In both stores.
C15_AddUnknownVolunteer ==
    /\ \A teamID \in TeamIDs, email \in Emails :
          /\ ~Has(mem.volunteers, email) =>
                MemAddTeamMember(mem, teamID, email) = Result(mem, ErrNotFound, NoVal)
          /\ ~Has(pg.volunteers, email) =>
                PgAddTeamMember(pg, teamID, email) = Result(pg, ErrNotFound, NoVal)
    /\ ret.op = "AddTeamMember" =>
          /\ ~Has(mem.volunteers, ret.arg[2]) => ret.mem.err = ErrNotFound
          /\ ~Has(pg.volunteers, ret.arg[2]) => ret.pg.err = ErrNotFound

\* A stranger asked to join an existing team that has a member set.
C15_Witness ==
    /\ ret.op = "AddTeamMember"
    /\ Has(mem.teams, ret.arg[1]) /\ Has(mem.teamMembers, ret.arg[1])
    /\ ~Has(mem.volunteers, ret.arg[2]) /\ ~Has(pg.volunteers, ret.arg[2])
    /\ ret.mem.err = ErrNotFound /\ ret.pg.err = ErrNotFound

LoginRoute == "POST /v1/volunteers/login"
PostTeamRoute == "POST /v1/teams"
PutRoute == "PUT /v1/teams/:id/members/:email"
DeleteRoute == "DELETE /v1/teams/:id/members/:email"
\* The routes behind the JWT middleware.
AuthenticatedRoutes ==
    {"GET /v1/volunteers/me", PostTeamRoute, "GET /v1/teams/:id",
     "GET /v1/teams/:id/members", PutRoute, DeleteRoute}

\* What the request that was served last came to, in either store.
ServedLast == {ret.mem, ret.pg}

\* The errors with which the middleware of a route turns a request down.
AuthErrors == {ErrJWTMissing, ErrJWTInvalid, ErrUnauthorized}

\* The header carries a token that PostLogin issued: it parses and is
\* signed with the secret.
Genuine(auth) == auth.bearer /\ auth.parses /\ auth.jwt \in issued

C17_LoginIssuesToken ==
    /\ (ret.op = LoginRoute /\ ret.arg.body.Email # "" /\ ret.arg.body.Password # "") =>
          \A s \in ServedLast :
              /\ Len(s.called) = 1
              /\ s.called[1].op = Auth
              /\ s.called[1].err = Nil <=> s.resp.err = Nil
              /\ s.resp.err = Nil =>
                    /\ Status(s.resp) = StatusOK
                    /\ s.resp.body.token \in issued
                    /\ s.resp.body.token =
                          SignedString([email |-> ret.arg.body.Email,
                                        exp |-> ret.arg.at + tokenExpiration], TokenSecret)
              /\ s.called[1].err = ErrPasswordMismatch =>
                    /\ s.resp.err = ErrUnauthorized
                    /\ Status(s.resp) = StatusUnauthorized
                    /\ TokensOf([called |-> s.called, resp |-> s.resp]) = {}
    /\ \A jwt \in issued :
          /\ jwt.key = TokenSecret
          /\ Has(mem.volunteers, jwt.claims.email)
          /\ Has(pg.volunteers, jwt.claims.email)

\* A login with the wrong password, after one that was issued a token.
C17_Witness ==
    /\ ret.op = LoginRoute
    /\ ret.mem.called # << >> /\ ret.mem.called[1].err = ErrPasswordMismatch
    /\ ret.pg.called # << >> /\ ret.pg.called[1].err = ErrPasswordMismatch
    /\ issued # {}

\* C18: on every route behind the JWT middleware a token issued by login is
\* accepted at every time before its expiration; from its expiration onwards,
\* or when it is not signed with the secret or does not parse, the request
\* is turned down and no Store call is made.
C18_TokenAcceptedUntilExpiration ==
    ret.op \in AuthenticatedRoutes =>
        LET auth == ret.arg.auth
        IN  \A s \in ServedLast :
                /\ (Genuine(auth) /\ ret.arg.at < auth.jwt.claims.exp) =>
                      s.resp.err \notin {ErrJWTMissing, ErrJWTInvalid}
                /\ (~Genuine(auth) \/ ret.arg.at >= auth.jwt.claims.exp) =>
                      s.called = << >> /\ s.resp.err \in {ErrJWTMissing, ErrJWTInvalid}

\* C19: whenever the Store call of a handler returned ErrNotFound the status
\* is 404, for every handler; ErrPasswordMismatch gives 401, ErrAlreadyExists
\* from CreateTeam gives 409, and 500 is the status of other errors only.
C19_ErrorStatus ==
    ret.op # "New" =>
        \A s \in ServedLast :
            s.called # << >> =>
                LET err == s.called[1].err
                IN  /\ err = ErrNotFound => Status(s.resp) = StatusNotFound
                    /\ err = ErrPasswordMismatch => Status(s.resp) = StatusUnauthorized
                    /\ (err = ErrAlreadyExists /\ ret.op = PostTeamRoute) =>
                          Status(s.resp) = StatusConflict
                    /\ Status(s.resp) = StatusInternalServerError =>
                          err \notin {Nil, ErrNotFound, ErrPasswordMismatch, ErrAlreadyExists}

\* C20: PUT /v1/teams/:id/members/:email answers 201 when AddTeamMember made
\* the membership and also when it returned ErrAlreadyExists, and in the
\* second case the store is as it was.
C20_JoinIdempotent ==
    /\ ret.op = PutRoute =>
          \A s \in ServedLast :
              (s.called # << >> /\ s.called[1].err \in {Nil, ErrAlreadyExists}) =>
                  Status(s.resp) = StatusCreated
    /\ \A teamID \in TeamIDs, email \in Emails :
          /\ MemAddTeamMember(mem, teamID, email).err = ErrAlreadyExists =>
                PutTeamMemberByEmail("memorystore", mem, teamID, email).store = mem
          /\ PgAddTeamMember(pg, teamID, email).err = ErrAlreadyExists =>
                PutTeamMemberByEmail("postgrestore", pg, teamID, email).store = pg

\* The errors of an operation that gave up because its context was cancelled.
CancellationErrors == {ErrCanceled, ErrQueryCanceled}

\* C21: a Store operation called with a context that is already cancelled
\* returns a cancellation error and leaves the store as it was, in the
\* in-memory store and in the relational store.
C21_CancelledContextAborts ==
    [][ret'.ctx = Canceled =>
          /\ ret'.mem.err \in CancellationErrors
          /\ ret'.pg.err \in CancellationErrors
          /\ mem' = mem
          /\ pg' = pg]_vars

\* The operations of the Store interface, as ret.op names them.
StoreOps ==
    {"AuthenticateOrCreateVolunteerAccount", "GetVolunteerByEmail", "CreateTeam",
     "GetTeamByID", "AddTeamMember", "ListTeamMembers", "RemoveTeamMember",
     "CountTeamMembers", "RunHealthcheck"}

\* C22: every Store operation of every sequence applied to both stores from
\* the empty state returns the same error and the same value in the
\* in-memory store and in the relational store; two lists of members are the
\* same when they hold the same volunteers, in any order.
C22_StoresEquivalent ==
    ret.op \in StoreOps =>
        /\ ret.mem.err = ret.pg.err
        /\ IF ret.op = "ListTeamMembers"
           THEN /\ Len(ret.mem.val.items) = Len(ret.pg.val.items)
                /\ EmailsOf(ret.mem.val) = EmailsOf(ret.pg.val)
           ELSE ret.mem.val = ret.pg.val

\* C23: what the in-memory GetVolunteerByEmail and ListTeamMembers return
\* are copies: a caller writing to a Volunteer it got from one of them
\* changes no volunteer of the store, neither the email nor the password,
\* and so no result of a later operation.
C23_ReadsReturnCopies ==
    [][(ret'.op = "Mutate" /\ ret'.arg.of \in {"GetVolunteerByEmail", "ListTeamMembers"}) =>
          /\ HeapView(heap') = HeapView(heap)
          /\ ret'.arg.ptr \notin Live(heap, {})]_vars

\* The caller changed the email of a volunteer it got from ListTeamMembers,
\* and the store still has the volunteer under the email it joined with.
C23_Witness ==
    /\ ret.op = "Mutate"
    /\ ret.arg.of = "ListTeamMembers"
    /\ ret.arg.field = "Email"
    /\ heap.objects[ret.arg.ptr].Email = ret.arg.value
    /\ \E teamID \in DOMAIN heap.teamMembers :
          \E email \in heap.teamMembers[teamID] :
              /\ email # ret.arg.value
              /\ HeapView(heap).volunteers[email] = Volunteer(email, "secret")

\* C24: once CreateTeam has stored a team in the in-memory store, nothing a
\* caller does changes the id or the name that GetTeamByID returns for it,
\* writing to the Team it passed to CreateTeam or to the Team that
\* GetTeamByID returned included.
C24_TeamImmutable ==
    [][\A id \in DOMAIN heap.teams :
          /\ HeapGetTeamByID(heap', id).err = Nil
          /\ heap'.objects[HeapGetTeamByID(heap', id).val]
                = heap.objects[HeapGetTeamByID(heap, id).val]]_vars

\* C25: volunteers and teams are never deleted. Once
\* AuthenticateOrCreateVolunteerAccount has succeeded for an email,
\* GetVolunteerByEmail of it succeeds in every later state, and once
\* CreateTeam has succeeded for an id, GetTeamByID of it succeeds in every
\* later state, whatever operation is made. In both stores.
C25_NeverDeleted ==
    [][/\ (ret'.op = Auth /\ ret'.mem.err = Nil) =>
              MemGetVolunteerByEmail(mem', ret'.arg.Email).err = Nil
       /\ (ret'.op = Auth /\ ret'.pg.err = Nil) =>
              PgGetVolunteerByEmail(pg', ret'.arg.Email).err = Nil
       /\ (ret'.op = "CreateTeam" /\ ret'.mem.err = Nil) =>
              MemGetTeamByID(mem', ret'.arg.ID).err = Nil
       /\ (ret'.op = "CreateTeam" /\ ret'.pg.err = Nil) =>
              PgGetTeamByID(pg', ret'.arg.ID).err = Nil
       /\ \A email \in Emails :
              /\ MemGetVolunteerByEmail(mem, email).err = Nil =>
                    MemGetVolunteerByEmail(mem', email).err = Nil
              /\ PgGetVolunteerByEmail(pg, email).err = Nil =>
                    PgGetVolunteerByEmail(pg', email).err = Nil
       /\ \A teamID \in TeamIDs :
              /\ MemGetTeamByID(mem, teamID).err = Nil =>
                    MemGetTeamByID(mem', teamID).err = Nil
              /\ PgGetTeamByID(pg, teamID).err = Nil =>
                    PgGetTeamByID(pg', teamID).err = Nil]_vars

\* The last member of a team has left it: the volunteer and the team are
\* still there, in both stores.
C25_Witness ==
    /\ ret.op = "RemoveTeamMember"
    /\ ret.mem.err = Nil
    /\ ret.pg.err = Nil
    /\ MemEmailSet(mem, ret.arg[1]) = {}
    /\ MemGetVolunteerByEmail(mem, ret.arg[2]).err = Nil
    /\ PgGetVolunteerByEmail(pg, ret.arg[2]).err = Nil
    /\ MemGetTeamByID(mem, ret.arg[1]).err = Nil
    /\ PgGetTeamByID(pg, ret.arg[1]).err = Nil

\* C26: through the handlers no volunteer with an empty email or an empty
\* password and no team with an empty id gets into a store: a login with an
\* empty email or password, and a team creation with an empty id, is
\* answered 400 with no Store call made.
C26_NoEmptyKeys ==
    /\ "" \notin DOMAIN mem.volunteers \cup DOMAIN pg.volunteers
    /\ "" \notin DOMAIN mem.teams \cup DOMAIN pg.teams
    /\ \A email \in DOMAIN mem.volunteers : mem.volunteers[email].Password # ""
    /\ \A email \in DOMAIN pg.volunteers :
          pg.volunteers[email] # Crypt("", pg.volunteers[email])
    /\ (ret.op = LoginRoute /\ (ret.arg.body.Email = "" \/ ret.arg.body.Password = "")) =>
          \A s \in ServedLast :
              s.called = << >> /\ s.resp.err = ErrBadRequest /\ Status(s.resp) = StatusBadRequest
    /\ (ret.op = PostTeamRoute /\ ret.arg.body.ID = "") =>
          \A s \in ServedLast :
              /\ s.called = << >>
              /\ JWTMiddleware(ret.arg.auth, ret.arg.at).ok =>
                    s.resp.err = ErrBadRequest /\ Status(s.resp) = StatusBadRequest

\* A volunteer who has an account sent a login without a password.
C26_Witness ==
    /\ ret.op = LoginRoute
    /\ ret.arg.body.Password = ""
    /\ Has(mem.volunteers, ret.arg.body.Email)
    /\ Has(pg.volunteers, ret.arg.body.Email)
    /\ Status(ret.mem.resp) = StatusBadRequest

\* C27 as stated: memorystore's AddTeamMember looks the volunteer up only for
\* a team that already has a member set, so that on an existing team without
\* a member set an unknown email is accepted and becomes the team's member.
C27_VolunteerCheckedOnlyOnExistingSet ==
    \A teamID \in DOMAIN mem.teams, email \in Emails \ DOMAIN mem.volunteers :
        LET r == MemAddTeamMember(mem, teamID, email)
        IN  IF Has(mem.teamMembers, teamID)
            THEN r.err = ErrNotFound
            ELSE r.err = Nil /\ MemEmailSet(r.store, teamID) = {email}

\* C27, amended: memorystore's AddTeamMember looks the volunteer up in every
\* case. A call for an existing team and an unknown email returns ErrNotFound
\* and creates no membership, whether or not the team has a member set.
C27_VolunteerCheckedInEveryCase ==
    /\ \A teamID \in DOMAIN mem.teams, email \in Emails \ DOMAIN mem.volunteers :
          LET r == MemAddTeamMember(mem, teamID, email)
          IN  /\ r.err = ErrNotFound
              /\ r.store.teamMembers = mem.teamMembers
    /\ (/\ ret.op = "AddTeamMember"
        /\ Has(mem.teams, ret.arg[1])
        /\ ~Has(mem.volunteers, ret.arg[2]))
       => /\ ret.mem.err = ErrNotFound
          /\ ret.arg[2] \notin MemEmailSet(mem, ret.arg[1])

\* A stranger asked to join an existing team that has no member set.
C27_Witness ==
    /\ ret.op = "AddTeamMember"
    /\ Has(mem.teams, ret.arg[1]) /\ ~Has(mem.teamMembers, ret.arg[1])
    /\ ~Has(mem.volunteers, ret.arg[2])
    /\ ret.mem.err = ErrNotFound

\* C28: memorystore's AddTeamMember(t, e), for a team t and a volunteer e,
\* does the same on a team without a member set and on a team whose member
\* set is empty: it succeeds and leaves t with exactly the member e. The sole
\* member of a team can hence be removed and added again: the removal
\* succeeds, and the addition after it succeeds and leaves exactly {e}.
C28_FirstMemberCreatesSet ==
    \A teamID \in DOMAIN mem.teams, email \in DOMAIN mem.volunteers :
        /\ MemEmailSet(mem, teamID) = {} =>
              LET r == MemAddTeamMember(mem, teamID, email)
                  never == [mem EXCEPT !.teamMembers = [k \in DOMAIN @ \ {teamID} |-> @[k]]]
                  fresh == MemAddTeamMember(never, teamID, email)
              IN  /\ r.err = Nil
                  /\ MemEmailSet(r.store, teamID) = {email}
                  /\ r = fresh
                  /\ r.store = [mem EXCEPT !.teamMembers = Put(@, teamID, {email})]
        /\ MemEmailSet(mem, teamID) = {email} =>
              LET removed == MemRemoveTeamMember(mem, teamID, email)
                  again == MemAddTeamMember(removed.store, teamID, email)
              IN  /\ removed.err = Nil
                  /\ Has(removed.store.teamMembers, teamID)
                  /\ removed.store.teamMembers[teamID] = {}
                  /\ again.err = Nil
                  /\ again.store = mem

\* The sole member of one team was just removed, which left the team an empty
\* member set, while another team never had a member set.
C28_Witness ==
    /\ ret.op = "RemoveTeamMember" /\ ret.mem.err = Nil
    /\ Has(mem.volunteers, ret.arg[2])
    /\ Has(mem.teamMembers, ret.arg[1]) /\ mem.teamMembers[ret.arg[1]] = {}
    /\ \E teamID \in DOMAIN mem.teams : ~Has(mem.teamMembers, teamID)

\* C29: goroutines that concurrently call memorystore's AddTeamMember(t, e)
\* for one stored team t and one stored volunteer e that is not yet a member,
\* while no caller adds anyone else to t: at no moment have two of the calls
\* succeeded, a call that has returned has returned nil or ErrAlreadyExists,
\* e is a member exactly when a call has succeeded, and once all the calls
\* have returned exactly one has succeeded and the others got
\* ErrAlreadyExists.
C29_OneConcurrentAddSucceeds ==
    \A teamID \in DOMAIN mem.teams, email \in DOMAIN mem.volunteers :
        LET onTeam == {p \in Procs : /\ frame[p].op = "AddTeamMember"
                                     /\ frame[p].arg[1] = teamID}
            callers == {p \in onTeam : frame[p].arg[2] = email}
            returned == {p \in callers : frame[p].done}
            succeeded == {p \in returned : frame[p].err = Nil}
        IN  (callers # {} /\ onTeam = callers) =>
                /\ Cardinality(succeeded) <= 1
                /\ \A p \in returned \ succeeded : frame[p].err = ErrAlreadyExists
                /\ (email \in MemEmailSet(mem, teamID)) = (succeeded # {})
                /\ returned = callers => Cardinality(succeeded) = 1

\* Every goroutine called AddTeamMember for the same team and volunteer, and
\* all the calls have returned: one with nil, the others with
\* ErrAlreadyExists.
C29_Witness ==
    \E teamID \in DOMAIN mem.teams, email \in DOMAIN mem.volunteers :
        /\ \A p \in Procs : /\ frame[p].op = "AddTeamMember"
                            /\ frame[p].arg = <<teamID, email>>
                            /\ frame[p].done
        /\ \E p \in Procs :
              /\ frame[p].err = Nil
              /\ \A q \in Procs \ {p} : frame[q].err = ErrAlreadyExists

\* C30: a memorystore operation that returns ErrPasswordMismatch,
\* ErrAlreadyExists or ErrNotFound returns with s.volunteers, s.teams and
\* s.teamMembers as they were when it was called. For every operation and
\* every argument, on every store the calls can build.
C30_ErrorsLeaveStore ==
    LET errors == {ErrPasswordMismatch, ErrAlreadyExists, ErrNotFound}
        kept(r) == r.err \in errors => r.store = mem
    IN  /\ \A email \in Emails, password \in Passwords :
              kept(MemAuthenticateOrCreateVolunteerAccount(mem, Volunteer(email, password)))
        /\ \A email \in Emails : kept(MemGetVolunteerByEmail(mem, email))
        /\ \A id \in TeamIDs, name \in Names : kept(MemCreateTeam(mem, Team(id, name)))
        /\ \A teamID \in TeamIDs :
              /\ kept(MemGetTeamByID(mem, teamID))
              /\ \A order \in Orders(MemEmailSet(mem, teamID)) :
                    kept(MemListTeamMembers(mem, teamID, order))
              /\ \A email \in Emails :
                    /\ kept(MemAddTeamMember(mem, teamID, email))
                    /\ kept(MemRemoveTeamMember(mem, teamID, email))
        /\ kept(MemCountTeamMembers(mem))
        /\ kept(MemRunHealthcheck(mem))

\* A team with a member was created a second time: ErrAlreadyExists, and the
\* store has the team, its member and the volunteers it had.
C30_Witness ==
    /\ ret.op = "CreateTeam" /\ ret.mem.err = ErrAlreadyExists
    /\ Has(mem.teams, ret.arg.ID)
    /\ MemEmailSet(mem, ret.arg.ID) # {}
    /\ MemCreateTeam(mem, ret.arg) = Result(mem, ErrAlreadyExists, NoVal)

\* The reading operations of the Store interface.
C31_Reads ==
    {"GetVolunteerByEmail", "GetTeamByID", "ListTeamMembers", "CountTeamMembers",
     "RunHealthcheck"}

\* C31: a call of GetVolunteerByEmail, GetTeamByID, ListTeamMembers,
\* CountTeamMembers or RunHealthcheck leaves the volunteers, the teams and
\* the memberships of the store it is made on as they were, in both stores,
\* and memorystore's RunHealthcheck returns nil.
C31_ReadsLeaveStore ==
    [][ret'.op \in C31_Reads =>
          /\ mem' = mem
          /\ pg' = pg
          /\ ret'.op = "RunHealthcheck" => ret'.mem.err = Nil]_vars

\* The health of a store with a volunteer, a team and a member was checked:
\* nil, and the three are still there.
C31_Witness ==
    /\ ret.op = "RunHealthcheck" /\ ret.mem.err = Nil
    /\ \E teamID \in DOMAIN mem.teams :
          \E email \in MemEmailSet(mem, teamID) :
              /\ Has(mem.volunteers, email)
              /\ mem.volunteers[email].Password # ""
              /\ <<teamID, email>> \in pg.team_members

\* C32: a call of memorystore's AddTeamMember(t, e) or RemoveTeamMember(t, e)
\* that returns nil changes the membership of t (e is in it after the add,
\* not in it after the remove) and nothing else: s.volunteers, s.teams and
\* the member set of every other team are as they were.
C32_OnlyTheTeamChanges ==
    [][(ret'.op \in {"AddTeamMember", "RemoveTeamMember"} /\ ret'.mem.err = Nil) =>
          LET teamID == ret'.arg[1]
              email == ret'.arg[2]
          IN  /\ mem'.volunteers = mem.volunteers
              /\ mem'.teams = mem.teams
              /\ DOMAIN mem'.teamMembers \ {teamID} = DOMAIN mem.teamMembers \ {teamID}
              /\ \A other \in DOMAIN mem.teamMembers \ {teamID} :
                    mem'.teamMembers[other] = mem.teamMembers[other]
              /\ (email \in MemEmailSet(mem', teamID)) = (ret'.op = "AddTeamMember")
              /\ (email \in MemEmailSet(mem, teamID)) = (ret'.op = "RemoveTeamMember")]_vars

\* A volunteer has joined a team while another team has a member.
C32_Witness ==
    /\ ret.op = "AddTeamMember" /\ ret.mem.err = Nil
    /\ mem.teamMembers[ret.arg[1]] = {ret.arg[2]}
    /\ \E other \in DOMAIN mem.teamMembers \ {ret.arg[1]} : mem.teamMembers[other] # {}

\* No goroutine is inside an operation of the store and the lock is free.
Quiescent ==
    /\ \A p \in Procs : pc[p] = 0
    /\ mu = [writer |-> NoProc, readers |-> {}]

\* C33: whenever memorystore is quiescent, every team in the mapping of
\* CountTeamMembers is a team ListTeamMembers succeeds for, and its count is
\* the number of volunteers ListTeamMembers returns for it.
C33_CountIsListLength ==
    Quiescent =>
        LET counts == MemCountTeamMembers(mem).val
        IN  \A teamID \in DOMAIN counts :
                \A order \in Orders(MemEmailSet(mem, teamID)) :
                    LET listed == MemListTeamMembers(mem, teamID, order)
                    IN  /\ listed.err = Nil
                        /\ Len(listed.val.items) = counts[teamID]

\* With no call in progress, one goroutine has counted a team with one member
\* and another has listed that member.
C33_Witness ==
    /\ Quiescent
    /\ \E p \in Procs, q \in Procs :
          /\ frame[p].op = "CountTeamMembers" /\ frame[p].done
          /\ frame[p].val = MemCountTeamMembers(mem).val
          /\ frame[q].op = "ListTeamMembers" /\ frame[q].done
          /\ frame[q].arg \in DOMAIN frame[p].val
          /\ frame[p].val[frame[q].arg] = 1
          /\ frame[q].err = Nil
          /\ Len(frame[q].val.items) = 1

\* server.Shutdown has returned: the goroutine is past line 288.
ShutdownReturned == run.handler \in {290, 291}

\* C34: runServerUntilInterrupted returns nil only when a SIGINT or SIGTERM
\* was received, ListenAndServe ended with ErrServerClosed, server.Shutdown
\* has returned and termAckCh was closed, which happens only after Shutdown
\* has returned. When ListenAndServe ends with another error the function
\* does not go on to wait for termAckCh: it is at its return statement, which
\* can be taken whatever the state of termAckCh, or it has returned that
\* error, wrapped as "HTTP server crashed".
C34_GracefulShutdownOrder ==
    /\ run.termAckCh = "closed" => ShutdownReturned
    /\ run.returned = Nil =>
          /\ run.sig \in Signals
          /\ run.err = ErrServerClosed
          /\ ShutdownReturned
          /\ run.termAckCh = "closed"
    /\ run.err \notin {NoVal, ErrServerClosed} =>
          /\ run.main \in {295, 0}
          /\ (run.main = 295 /\ ~run.killed) => ENABLED ReturnCrashed
          /\ run.main = 0 => run.returned = "HTTP server crashed: " \o run.err
    /\ run.main = 0 => run.returned # NoVal
    /\ run.returned \notin {NoVal, Nil} => run.err \in {ServerErrors.listen, ServerErrors.accept}

\* A signal was received while the server was serving, and the function has
\* returned nil.
C34_Witness ==
    /\ run.main = 0 /\ run.returned = Nil
    /\ run.sig \in Signals
    /\ run.listener = "closed"
    /\ ShutdownReturned

====
